---------------------------- MODULE Spec2Model ----------------------------
(***************************************************************************)
(* Model of wt (src/main.go): the worktree name codec, the worktree        *)
(* locator, the argument disambiguator and the devcontainer proxy-port     *)
(* discovery.                                                              *)
(*                                                                         *)
(* Go strings are modelled as sequences of one-character strings, so that  *)
(* prefix stripping, splitting, trimming and path arithmetic are computed  *)
(* character by character as the Go library computes them (Unix build).    *)
(***************************************************************************)
EXTENDS Naturals, Sequences, FiniteSets

VARIABLES
    cwdKind,     \* "outside" | "gitdir" | "worktree": where the process runs
    mainDir,     \* the primary checkout's top-level directory (git's truth)
    cwd,         \* the current directory (a checkout root, or the .git directory)
    listing,     \* paths of `git worktree list --porcelain`, in git's order
    docker,      \* the container runtime: [up, containers] (see Container runtime)
    op,          \* the function that ran last ("none" after start)
    in,          \* its arguments
    res,         \* its results (and the locals it computed on the way)
    lastPath,    \* the resolveWorktreePath call before the last: <<[name, path, err]>>
    pc,          \* getProxyPort: "idle" | "port" | "done"
    out,         \* getProxyPort: local `out` (overwritten by the second query)
    containerID, \* getProxyPort: local `containerID`
    port,        \* getProxyPort: returned port
    err,         \* getProxyPort: returned error ("" is nil)
    errArg,      \* getProxyPort: the %q operand of the returned error
    issued,      \* getProxyPort: the docker commands run so far, in order
    cmd,         \* the wt command that runs ("none" before it starts)
    cmdArgs,     \* its arguments
    step,        \* where it stands: "start" | "openDevcontainer" | "getProxyPort" | "done"
    cmdDir,      \* local `dir`: the resolved worktree directory
    cmdExtra,    \* local `extra`: the arguments passed through
    argv,        \* the argument vector built so far (chromeArgs, codeArgs, ...)
    calls,       \* add, rm, cd, code: VCS queries and filesystem accesses, in order
    upOut,       \* openDevcontainer: local `out`, the captured transcript
    jsonLine,    \* openDevcontainer: local `jsonLine` (Empty is nil)
    result,      \* openDevcontainer: local `result`, the decoded object
    folderURI,   \* openDevcontainer: local `folderURI`
    launched,    \* the processes started or exec'ed: <<[bin, argv]>>
    cmdErr       \* the error the command returns ("" is nil)

envVars == <<cwdKind, mainDir, cwd, listing, docker>>
callVars == <<op, in, res, lastPath>>
proxyVars == <<pc, out, containerID, port, err, errArg, issued>>
cmdVars == <<cmd, cmdArgs, step, cmdDir, cmdExtra, argv, calls, upOut, jsonLine,
             result, folderURI, launched, cmdErr>>
vars == <<cwdKind, mainDir, cwd, listing, docker, op, in, res, lastPath,
          pc, out, containerID, port, err, errArg, issued,
          cmd, cmdArgs, step, cmdDir, cmdExtra, argv, calls, upOut, jsonLine,
          result, folderURI, launched, cmdErr>>

-----------------------------------------------------------------------------
(* Bounds *)

MaxNameLen == 2
MaxWorktrees == 2
MaxArgs == 2
MaxPsLen == 4
MaxLineLen == 4
MaxContainers == 2
MaxTranscriptLen == 4
MaxIDLen == 2
MaxFolderLen == 2

-----------------------------------------------------------------------------
(* Go's strings package on character sequences *)

Empty == <<>>

SeqsUpTo(S, n) == UNION {[1..k -> S] : k \in 0..n}

HasPrefix(s, prefix) ==
    /\ Len(prefix) <= Len(s)
    /\ SubSeq(s, 1, Len(prefix)) = prefix

TrimPrefix(s, prefix) ==
    IF HasPrefix(s, prefix) THEN SubSeq(s, Len(prefix) + 1, Len(s)) ELSE s

Contains(s, c) == \E i \in 1..Len(s) : s[i] = c

\* scan s from position i on (step 1) or back (step 0) for character c
RECURSIVE Scan(_, _, _, _)
Scan(s, c, i, forward) ==
    IF i < 1 \/ i > Len(s) THEN 0
    ELSE IF s[i] = c THEN i
    ELSE IF forward THEN Scan(s, c, i + 1, forward)
    ELSE Scan(s, c, i - 1, forward)

\* index of the first / last occurrence of character c, 0 when there is none
IndexByte(s, c) == Scan(s, c, 1, TRUE)

LastIndexByte(s, c) == Scan(s, c, Len(s), FALSE)

\* strings.Split(s, sep) for a one-character separator: never empty
RECURSIVE Split(_, _)
Split(s, c) ==
    LET Cut(i) == IF i = 0 THEN <<s>>
                  ELSE <<SubSeq(s, 1, i - 1)>> \o Split(SubSeq(s, i + 1, Len(s)), c)
    IN Cut(IndexByte(s, c))

WhiteSpace == {" ", "\t", "\n", "\r"}

RECURSIVE TrimLeftSpace(_)
TrimLeftSpace(s) ==
    IF s # Empty /\ s[1] \in WhiteSpace THEN TrimLeftSpace(Tail(s)) ELSE s

RECURSIVE TrimRightSpace(_)
TrimRightSpace(s) ==
    IF s # Empty /\ s[Len(s)] \in WhiteSpace
    THEN TrimRightSpace(SubSeq(s, 1, Len(s) - 1)) ELSE s

TrimSpace(s) == TrimRightSpace(TrimLeftSpace(s))

-----------------------------------------------------------------------------
(* Go's path/filepath package (Unix: separator '/', no volume names) *)

IsAbs(path) == HasPrefix(path, <<"/">>)

RECURSIVE StripTrailingSlashes(_)
StripTrailingSlashes(path) ==
    IF path # Empty /\ path[Len(path)] = "/"
    THEN StripTrailingSlashes(SubSeq(path, 1, Len(path) - 1)) ELSE path

Base(path) ==
    LET OrSlash(e) == IF e = Empty THEN <<"/">> ELSE e
        LastElem(s) == OrSlash(SubSeq(s, LastIndexByte(s, "/") + 1, Len(s)))
    IN IF path = Empty THEN <<".">>
       ELSE LastElem(StripTrailingSlashes(path))

\* the lexical processing of Clean, one path element at a time
RECURSIVE CleanElems(_, _, _)
CleanElems(elems, rooted, stack) ==
    LET Push(e) ==
            IF e = Empty \/ e = <<".">> THEN stack
            ELSE IF e = <<".", ".">>
            THEN IF stack # <<>> /\ stack[Len(stack)] # <<".", ".">>
                 THEN SubSeq(stack, 1, Len(stack) - 1)
                 ELSE IF rooted THEN stack
                 ELSE Append(stack, e)
            ELSE Append(stack, e)
    IN IF elems = <<>> THEN stack
       ELSE CleanElems(Tail(elems), rooted, Push(Head(elems)))

RECURSIVE JoinElems(_)
JoinElems(elems) ==
    IF elems = <<>> THEN Empty
    ELSE IF Len(elems) = 1 THEN elems[1]
    ELSE elems[1] \o <<"/">> \o JoinElems(Tail(elems))

Clean(path) ==
    LET OrDot(r) == IF r = Empty THEN <<".">> ELSE r
        Cleaned(rooted) ==
            (IF rooted THEN <<"/">> ELSE Empty)
            \o JoinElems(CleanElems(Split(path, "/"), rooted, <<>>))
    IN IF path = Empty THEN <<".">>
       ELSE OrDot(Cleaned(path[1] = "/"))

Dir(path) == Clean(SubSeq(path, 1, LastIndexByte(path, "/")))

\* filepath.Join of two elements
Join(a, b) ==
    IF a = Empty /\ b = Empty THEN Empty
    ELSE IF a = Empty THEN Clean(b)
    ELSE IF b = Empty THEN Clean(a)
    ELSE Clean(a \o <<"/">> \o b)

-----------------------------------------------------------------------------
(* Errors: the message of the returned error; NoErr is nil *)

NoErr == ""
ErrNotRepo == "not in a git repository"
ErrNotWorktree == "not in a git worktree"
ErrMainWorktree == "currently in the main worktree, not a named worktree"
ErrNotRecognized == "current directory is not in a recognized worktree"
ErrEmptyName == "worktree name cannot be empty"
ErrInvalidName == "invalid worktree name"
ErrSeparators == "invalid worktree name: path separators are not allowed"
InvalidNameErrs == {ErrEmptyName, ErrInvalidName, ErrSeparators}

-----------------------------------------------------------------------------
(* Name codec and validation *)

worktreeDelimiter == <<"@">>

worktreeDirName(repoBasename, name) == repoBasename \o worktreeDelimiter \o name

RECURSIVE TrimLeftCutset(_, _)
TrimLeftCutset(s, cutset) ==
    IF s # Empty /\ Contains(cutset, s[1]) THEN TrimLeftCutset(Tail(s), cutset) ELSE s

\* parseWorktreeName with strings.TrimLeft (a cutset) for strings.TrimPrefix
parseWorktreeName_TrimLeft(dirName, repoBasename) ==
    IF HasPrefix(dirName, repoBasename \o worktreeDelimiter)
    THEN TrimLeftCutset(dirName, repoBasename \o worktreeDelimiter)
    ELSE Empty

parseWorktreeName(dirName, repoBasename) ==
    LET prefix == repoBasename \o worktreeDelimiter IN
    IF HasPrefix(dirName, prefix) THEN TrimPrefix(dirName, prefix) ELSE Empty

\* validateWorktreeName without the test for "." and ".."
validateWorktreeName_NoDots(name) ==
    IF name = Empty THEN ErrEmptyName
    ELSE IF Contains(name, "/") \/ Contains(name, "\\") THEN ErrSeparators
    ELSE IF Base(name) # name \/ IsAbs(name) THEN ErrInvalidName
    ELSE NoErr

\* validateWorktreeName that looks for "/" only
validateWorktreeName_NoBackslash(name) ==
    IF name = Empty THEN ErrEmptyName
    ELSE IF name = <<".">> \/ name = <<".", ".">> THEN ErrInvalidName
    ELSE IF Contains(name, "/") THEN ErrSeparators
    ELSE IF Base(name) # name \/ IsAbs(name) THEN ErrInvalidName
    ELSE NoErr

validateWorktreeName(name) ==
    IF name = Empty THEN ErrEmptyName
    ELSE IF name = <<".">> \/ name = <<".", ".">> THEN ErrInvalidName
    ELSE IF Contains(name, "/") \/ Contains(name, "\\") THEN ErrSeparators
    ELSE IF Base(name) # name \/ IsAbs(name) THEN ErrInvalidName
    ELSE NoErr


-----------------------------------------------------------------------------
(* The external git tool, as seen from the current directory *)

DotGit == <<".", "g", "i", "t">>

\* `git rev-parse --git-common-dir`: relative when run in the primary checkout
\* or in the .git directory itself, absolute in a linked worktree
gitCommonDir ==
    IF cwdKind = "outside" THEN [ok |-> FALSE, out |-> Empty]
    ELSE IF cwdKind = "gitdir" THEN [ok |-> TRUE, out |-> <<".", "\n">>]
    ELSE IF cwd = mainDir THEN [ok |-> TRUE, out |-> DotGit \o <<"\n">>]
    ELSE [ok |-> TRUE, out |-> Join(mainDir, DotGit) \o <<"\n">>]

\* `git rev-parse --show-toplevel`: fails outside a work tree
gitShowToplevel ==
    IF cwdKind = "worktree" THEN [ok |-> TRUE, out |-> cwd \o <<"\n">>]
    ELSE [ok |-> FALSE, out |-> Empty]

WorktreeWord == <<"w", "o", "r", "k", "t", "r", "e", "e", " ">>

RECURSIVE Porcelain(_)
Porcelain(paths) ==
    IF paths = <<>> THEN Empty
    ELSE WorktreeWord \o Head(paths) \o <<"\n", "H", "E", "A", "D", " ", "0", "\n", "\n">>
         \o Porcelain(Tail(paths))

\* `git worktree list --porcelain`
gitWorktreeList ==
    IF cwdKind = "outside" THEN [ok |-> FALSE, out |-> Empty]
    ELSE [ok |-> TRUE, out |-> Porcelain(listing)]

-----------------------------------------------------------------------------
(* Worktree locator *)

getMainRepoRoot ==
    LET Absolute(commonDir) ==
            IF ~IsAbs(commonDir) THEN Join(cwd, commonDir) ELSE commonDir
        Root(g) ==
            IF ~g.ok THEN [path |-> Empty, err |-> ErrNotRepo]
            ELSE [path |-> Dir(Clean(Absolute(TrimSpace(g.out)))), err |-> NoErr]
    IN Root(gitCommonDir)

getWorktreeParentDir ==
    LET Parent(m) ==
            IF m.err # NoErr THEN [path |-> Empty, err |-> m.err]
            ELSE [path |-> Dir(m.path), err |-> NoErr]
    IN Parent(getMainRepoRoot)

getCurrentWorktreeRoot ==
    LET Root(g) ==
            IF ~g.ok THEN [path |-> Empty, err |-> "exit status 128"]
            ELSE [path |-> TrimSpace(g.out), err |-> NoErr]
    IN Root(gitShowToplevel)

\* resolveCurrentWorktreeName without the test for an empty decoded name
resolveCurrentWorktreeName_EmptyNameOk ==
    LET Body(w, m) ==
            IF w.err # NoErr THEN [name |-> Empty, err |-> ErrNotWorktree]
            ELSE IF m.err # NoErr THEN [name |-> Empty, err |-> m.err]
            ELSE IF w.path = m.path THEN [name |-> Empty, err |-> ErrMainWorktree]
            ELSE [name |-> parseWorktreeName(Base(w.path), Base(m.path)),
                  err |-> NoErr]
    IN Body(getCurrentWorktreeRoot, getMainRepoRoot)

resolveCurrentWorktreeName ==
    LET Named(name) ==
            IF name = Empty THEN [name |-> Empty, err |-> ErrNotRecognized]
            ELSE [name |-> name, err |-> NoErr]
        Body(w, m) ==
            IF w.err # NoErr THEN [name |-> Empty, err |-> ErrNotWorktree]
            ELSE IF m.err # NoErr THEN [name |-> Empty, err |-> m.err]
            ELSE IF w.path = m.path THEN [name |-> Empty, err |-> ErrMainWorktree]
            ELSE Named(parseWorktreeName(Base(w.path), Base(m.path)))
    IN Body(getCurrentWorktreeRoot, getMainRepoRoot)

resolveWorktreePath(name) ==
    LET Body(v, p, m) ==
            IF v # NoErr THEN [path |-> Empty, err |-> v]
            ELSE IF p.err # NoErr THEN [path |-> Empty, err |-> p.err]
            ELSE IF m.err # NoErr THEN [path |-> Empty, err |-> m.err]
            ELSE [path |-> Join(p.path, worktreeDirName(Base(m.path), name)),
                  err |-> NoErr]
    IN Body(validateWorktreeName(name), getWorktreeParentDir, getMainRepoRoot)

\* the queries a command puts to git and the accesses it makes to the file
\* system, in the order of the calls
Vcs(what) == [kind |-> "vcs", what |-> what]

Fs(what) == [kind |-> "fs", what |-> what]

callsGetMainRepoRoot ==
    LET Getwd(g) ==
            IF g.ok /\ ~IsAbs(TrimSpace(g.out)) THEN <<Fs("os.Getwd")>> ELSE <<>>
    IN <<Vcs("git rev-parse --git-common-dir")>> \o Getwd(gitCommonDir)

callsGetCurrentWorktreeRoot == <<Vcs("git rev-parse --show-toplevel")>>

callsResolveCurrentWorktreeName ==
    callsGetCurrentWorktreeRoot
        \o (IF getCurrentWorktreeRoot.err # NoErr THEN <<>> ELSE callsGetMainRepoRoot)

\* resolveWorktreePath asking git for the parent directory before it looks at
\* the name
callsResolveWorktreePath_GitFirst(name) ==
    callsGetMainRepoRoot
        \o (IF getWorktreeParentDir.err # NoErr THEN <<>> ELSE callsGetMainRepoRoot)

callsResolveWorktreePath(name) ==
    IF validateWorktreeName(name) # NoErr THEN <<>>
    ELSE callsGetMainRepoRoot
             \o (IF getWorktreeParentDir.err # NoErr THEN <<>>
                 ELSE callsGetMainRepoRoot)

\* the loop of getWorktreeNames putting each new name in front of the others
RECURSIVE namesOfLines_Reversed(_, _, _)
namesOfLines_Reversed(lines, mainRoot, prefix) ==
    LET Keep(name) ==
            IF name # Empty /\ HasPrefix(name, prefix) THEN <<name>> ELSE <<>>
        OfPath(wtPath) ==
            IF wtPath = mainRoot THEN <<>>
            ELSE IF Dir(wtPath) # Dir(mainRoot) THEN <<>>
            ELSE Keep(parseWorktreeName(Base(wtPath), Base(mainRoot)))
        OfLine(line) ==
            IF ~HasPrefix(line, WorktreeWord) THEN <<>>
            ELSE OfPath(TrimPrefix(line, WorktreeWord))
    IN IF lines = <<>> THEN <<>>
       ELSE namesOfLines_Reversed(Tail(lines), mainRoot, prefix) \o OfLine(Head(lines))

\* the loop body of getWorktreeNames over the lines of git's output
RECURSIVE namesOfLines(_, _, _)
namesOfLines(lines, mainRoot, prefix) ==
    LET Keep(name) ==
            IF name # Empty /\ HasPrefix(name, prefix) THEN <<name>> ELSE <<>>
        OfPath(wtPath) ==
            IF wtPath = mainRoot THEN <<>>
            ELSE IF Dir(wtPath) # Dir(mainRoot) THEN <<>>
            ELSE Keep(parseWorktreeName(Base(wtPath), Base(mainRoot)))
        OfLine(line) ==
            IF ~HasPrefix(line, WorktreeWord) THEN <<>>
            ELSE OfPath(TrimPrefix(line, WorktreeWord))
    IN IF lines = <<>> THEN <<>>
       ELSE OfLine(Head(lines)) \o namesOfLines(Tail(lines), mainRoot, prefix)

getWorktreeNames(prefix) ==
    LET Body(m, g) ==
            IF m.err # NoErr THEN <<>>
            ELSE IF ~g.ok THEN <<>>
            ELSE namesOfLines(Split(g.out, "\n"), m.path, prefix)
    IN Body(getMainRepoRoot, gitWorktreeList)

-----------------------------------------------------------------------------
(* Argument disambiguator *)

InSeq(x, s) == \E i \in 1..Len(s) : s[i] = x

\* resolveExecArgs that keeps "." in the payload
resolveExecArgs_DotKeepsArgs(args) ==
    LET Current(cur, extra) ==
            IF cur.err # NoErr THEN [name |-> Empty, extra |-> <<>>, err |-> cur.err]
            ELSE [name |-> cur.name, extra |-> extra, err |-> NoErr]
    IN IF args[1] = <<".">>
       THEN Current(resolveCurrentWorktreeName, args)
       ELSE IF InSeq(args[1], getWorktreeNames(Empty))
       THEN [name |-> args[1], extra |-> Tail(args), err |-> NoErr]
       ELSE Current(resolveCurrentWorktreeName, args)

\* resolveExecArgs that matches the first token as a prefix of a worktree name
resolveExecArgs_PrefixMatch(args) ==
    LET Current(cur, extra) ==
            IF cur.err # NoErr THEN [name |-> Empty, extra |-> <<>>, err |-> cur.err]
            ELSE [name |-> cur.name, extra |-> extra, err |-> NoErr]
        Found(names) ==
            IF \E i \in 1..Len(names) : HasPrefix(names[i], args[1])
            THEN [name |-> names[CHOOSE i \in 1..Len(names) :
                                     /\ HasPrefix(names[i], args[1])
                                     /\ \A j \in 1..(i-1) : ~HasPrefix(names[j], args[1])],
                  extra |-> Tail(args), err |-> NoErr]
            ELSE Current(resolveCurrentWorktreeName, args)
    IN IF args[1] = <<".">>
       THEN Current(resolveCurrentWorktreeName, Tail(args))
       ELSE Found(getWorktreeNames(Empty))

\* resolveExecArgs that drops the first token when it names no worktree
resolveExecArgs_DropsFirst(args) ==
    LET Current(cur, extra) ==
            IF cur.err # NoErr THEN [name |-> Empty, extra |-> <<>>, err |-> cur.err]
            ELSE [name |-> cur.name, extra |-> extra, err |-> NoErr]
    IN IF args[1] = <<".">>
       THEN Current(resolveCurrentWorktreeName, Tail(args))
       ELSE IF InSeq(args[1], getWorktreeNames(Empty))
       THEN [name |-> args[1], extra |-> Tail(args), err |-> NoErr]
       ELSE Current(resolveCurrentWorktreeName, Tail(args))

resolveExecArgs(args) ==
    LET Current(cur, extra) ==
            IF cur.err # NoErr THEN [name |-> Empty, extra |-> <<>>, err |-> cur.err]
            ELSE [name |-> cur.name, extra |-> extra, err |-> NoErr]
    IN IF args[1] = <<".">>
       THEN Current(resolveCurrentWorktreeName, Tail(args))
       ELSE IF InSeq(args[1], getWorktreeNames(Empty))
       THEN [name |-> args[1], extra |-> Tail(args), err |-> NoErr]
       ELSE Current(resolveCurrentWorktreeName, args)

resolveOptionalWorktreeArgs(args) ==
    LET Current(cur) ==
            IF cur.err # NoErr THEN [name |-> Empty, extra |-> <<>>, err |-> cur.err]
            ELSE [name |-> cur.name, extra |-> <<>>, err |-> NoErr]
    IN IF Len(args) = 0 THEN Current(resolveCurrentWorktreeName)
       ELSE resolveExecArgs(args)

\* the fall back without the comparison of the current root with the main root
fallBackToMain_NoRootCheck(args, err0, m, w) ==
    IF m.err # NoErr THEN [dir |-> Empty, extra |-> <<>>, err |-> err0]
    ELSE [dir |-> m.path, extra |-> args, err |-> NoErr]

\* the fall back taking a leading "." off the arguments it returns
fallBackToMain_DropsDot(args, err0, m, w) ==
    IF m.err # NoErr THEN [dir |-> Empty, extra |-> <<>>, err |-> err0]
    ELSE IF w.err # NoErr \/ w.path # m.path
    THEN [dir |-> Empty, extra |-> <<>>, err |-> err0]
    ELSE [dir |-> m.path,
          extra |-> IF args # <<>> /\ Head(args) = <<".">> THEN Tail(args) ELSE args,
          err |-> NoErr]

\* the fall back of resolveWorkspaceFolder, entered with the disambiguator's err
fallBackToMain(args, err0, m, w) ==
    IF m.err # NoErr THEN [dir |-> Empty, extra |-> <<>>, err |-> err0]
    ELSE IF w.err # NoErr \/ w.path # m.path
    THEN [dir |-> Empty, extra |-> <<>>, err |-> err0]
    ELSE [dir |-> m.path, extra |-> args, err |-> NoErr]

resolveWorkspaceFolderFrom(args, opt) ==
    LET Resolved(r) == [dir |-> r.path, extra |-> opt.extra, err |-> r.err]
    IN IF opt.err = NoErr THEN Resolved(resolveWorktreePath(opt.name))
       ELSE fallBackToMain(args, opt.err, getMainRepoRoot, getCurrentWorktreeRoot)

resolveWorkspaceFolder(args) ==
    resolveWorkspaceFolderFrom(args, resolveOptionalWorktreeArgs(args))

-----------------------------------------------------------------------------
(* Proxy-port discovery *)

ErrDockerQuery == "failed to query docker"
ErrNoRunning == "no running devcontainer found for"
ErrNoProxy == "no proxy port mapped for devcontainer"
ErrParsePort == "failed to parse port from"

\* net.SplitHostPort without the "too many colons" test of an unbracketed host
SplitHostPort_ManyColons(hostport) ==
    LET fail == [host |-> Empty, port |-> Empty, ok |-> FALSE]
        Rest(i, host, j, k) ==
            IF Contains(SubSeq(hostport, j, Len(hostport)), "[") THEN fail
            ELSE IF Contains(SubSeq(hostport, k, Len(hostport)), "]") THEN fail
            ELSE [host |-> host, port |-> SubSeq(hostport, i + 1, Len(hostport)),
                  ok |-> TRUE]
        Body(i, end) ==
            IF i = 0 THEN fail
            ELSE IF hostport[1] = "["
            THEN IF end = 0 THEN fail
                 ELSE IF end = Len(hostport) THEN fail
                 ELSE IF end + 1 # i THEN fail
                 ELSE Rest(i, SubSeq(hostport, 2, end - 1), 2, end + 1)
            ELSE Rest(i, SubSeq(hostport, 1, i - 1), 1, 1)
    IN Body(LastIndexByte(hostport, ":"), IndexByte(hostport, "]"))

\* net.SplitHostPort
SplitHostPort(hostport) ==
    LET fail == [host |-> Empty, port |-> Empty, ok |-> FALSE]
        \* i: the last colon; j, k: where a '[' resp. ']' may no longer occur
        Rest(i, host, j, k) ==
            IF Contains(SubSeq(hostport, j, Len(hostport)), "[") THEN fail
            ELSE IF Contains(SubSeq(hostport, k, Len(hostport)), "]") THEN fail
            ELSE [host |-> host, port |-> SubSeq(hostport, i + 1, Len(hostport)),
                  ok |-> TRUE]
        Body(i, end) ==
            IF i = 0 THEN fail
            ELSE IF hostport[1] = "["
            THEN IF end = 0 THEN fail
                 ELSE IF end = Len(hostport) THEN fail
                 ELSE IF end + 1 # i THEN fail
                 ELSE Rest(i, SubSeq(hostport, 2, end - 1), 2, end + 1)
            ELSE IF Contains(SubSeq(hostport, 1, i - 1), ":") THEN fail
            ELSE Rest(i, SubSeq(hostport, 1, i - 1), 1, 1)
    IN Body(LastIndexByte(hostport, ":"), IndexByte(hostport, "]"))

\* the first line, not trimmed
firstLineTrimmed_NoTrim(o) == Split(o, "\n")[1]

\* containerID := strings.TrimSpace(strings.Split(string(out), "\n")[0])
firstLineTrimmed(o) == TrimSpace(Split(o, "\n")[1])

\* getProxyPort up to and including the parse of `docker ps -q`; ans is what
\* the container runtime answers: [ok, out]
getProxyPortPs(dir, ans) ==
    /\ pc = "idle"
    /\ op' = "getProxyPort"
    /\ in' = dir
    /\ issued' = Append(issued, [cmd |-> "ps", arg |-> dir])
    /\ IF ~ans.ok
       THEN /\ pc' = "done"
            /\ err' = ErrDockerQuery
            /\ UNCHANGED <<out, containerID, errArg>>
       ELSE /\ out' = ans.out
            /\ containerID' = firstLineTrimmed(ans.out)
            /\ IF containerID' = Empty
               THEN /\ pc' = "done"
                    /\ err' = ErrNoRunning
                    /\ errArg' = Base(dir)
               ELSE /\ pc' = "port"
                    /\ UNCHANGED <<err, errArg>>
    /\ UNCHANGED <<port, res, lastPath>>
    /\ UNCHANGED envVars
    /\ UNCHANGED cmdVars

\* getProxyPortPort reporting a failed port query as "no running devcontainer"
getProxyPortPort_FailIsNoRunning(ans) ==
    LET Parsed(addr, hp) ==
            IF ~hp.ok
            THEN /\ err' = ErrParsePort
                 /\ errArg' = addr
                 /\ UNCHANGED port
            ELSE /\ port' = hp.port
                 /\ UNCHANGED <<err, errArg>>
        Addr(addr) == Parsed(addr, SplitHostPort(addr))
    IN
    /\ pc = "port"
    /\ pc' = "done"
    /\ issued' = Append(issued, [cmd |-> "port", arg |-> containerID])
    /\ IF ~ans.ok
       THEN /\ err' = ErrNoRunning
            /\ errArg' = Base(in)
            /\ UNCHANGED <<out, port>>
       ELSE /\ out' = ans.out
            /\ Addr(firstLineTrimmed(ans.out))
    /\ UNCHANGED <<op, in, res, lastPath, containerID>>
    /\ UNCHANGED envVars
    /\ UNCHANGED cmdVars

\* getProxyPortPort returning without an error when the port query fails
getProxyPortPort_FailIgnored(ans) ==
    LET Parsed(addr, hp) ==
            IF ~hp.ok
            THEN /\ err' = ErrParsePort
                 /\ errArg' = addr
                 /\ UNCHANGED port
            ELSE /\ port' = hp.port
                 /\ UNCHANGED <<err, errArg>>
        Addr(addr) == Parsed(addr, SplitHostPort(addr))
    IN
    /\ pc = "port"
    /\ pc' = "done"
    /\ issued' = Append(issued, [cmd |-> "port", arg |-> containerID])
    /\ IF ~ans.ok
       THEN UNCHANGED <<out, port, err, errArg>>
       ELSE /\ out' = ans.out
            /\ Addr(firstLineTrimmed(ans.out))
    /\ UNCHANGED <<op, in, res, lastPath, containerID>>
    /\ UNCHANGED envVars
    /\ UNCHANGED cmdVars

\* the rest of getProxyPort: `docker port <containerID> 1080` and its parse
getProxyPortPort(ans) ==
    LET Parsed(addr, hp) ==
            IF ~hp.ok
            THEN /\ err' = ErrParsePort
                 /\ errArg' = addr
                 /\ UNCHANGED port
            ELSE /\ port' = hp.port
                 /\ UNCHANGED <<err, errArg>>
        Addr(addr) == Parsed(addr, SplitHostPort(addr))
    IN
    /\ pc = "port"
    /\ pc' = "done"
    /\ issued' = Append(issued, [cmd |-> "port", arg |-> containerID])
    /\ IF ~ans.ok
       THEN /\ err' = ErrNoProxy
            /\ errArg' = Base(in)
            /\ UNCHANGED <<out, port>>
       ELSE /\ out' = ans.out
            /\ Addr(firstLineTrimmed(ans.out))
    /\ UNCHANGED <<op, in, res, lastPath, containerID>>
    /\ UNCHANGED envVars
    /\ UNCHANGED cmdVars

-----------------------------------------------------------------------------
(* Inputs *)

RootP == <<"/", "p", "/", "r">>

\* checkouts git may list besides the primary one: siblings that follow the
\* naming scheme, and paths that do not belong to the project
Candidates == {
    RootP \o <<"@", "a">>,
    RootP \o <<"@", "a", "b">>,
    RootP \o <<"@", "a", "\\", "b">>,
    RootP \o <<"@">>,
    <<"/", "p", "/", "s", "@", "a">>,
    <<"/", "q", "/", "r", "@", "a">> }

Tokens == { <<".">>, <<"a">>, <<"a", "\\", "b">>, <<"x">> }

Prefixes == { Empty, <<"a">>, <<"x">> }

NameChars == {"a", "@", ".", "/", "\\"}

Basenames == { <<"r">>, <<"r", "@">>, <<"a", "@", "a">>, <<"/">> }

CodecRoots == { RootP, <<"/", "r", "@", "a">>, <<"/">> }

ProxyDirs == { RootP \o <<"@", "a">> }

PsChars == {"a", " ", "\n"}

LineChars == {"1", ":", "[", "]"}

\* what follows the first line of `docker port` output
Tails == { Empty, <<" ", "\n">>, <<"\n", "1", ":", "1", "1", "\n">> }

\* what the container runtime may answer: failure, or success with output
Failed == [ok |-> FALSE, out |-> Empty]

PsAnswers ==
    {Failed} \cup {[ok |-> TRUE, out |-> o] : o \in SeqsUpTo(PsChars, MaxPsLen)}

PortAnswers ==
    {Failed} \cup {[ok |-> TRUE, out |-> line \o tail] :
                       line \in SeqsUpTo(LineChars, MaxLineLen), tail \in Tails}

TranscriptChars == {"{", "x", " ", "\n"}

\* how `devcontainer up` may end: failure, or success with a transcript
UpAnswers ==
    {Failed} \cup {[ok |-> TRUE, out |-> o] :
                       o \in SeqsUpTo(TranscriptChars, MaxTranscriptLen)}

AttachIDs == SeqsUpTo({"a", "b"}, MaxIDLen)

AttachFolders == SeqsUpTo({"/", "6", "2"}, MaxFolderLen)

DecFailed == [ok |-> FALSE, ContainerID |-> Empty, RemoteWorkspaceFolder |-> Empty]

\* what json.Unmarshal may make of a line: an error, or the two fields
Decodings ==
    {DecFailed} \cup {[ok |-> TRUE, ContainerID |-> id, RemoteWorkspaceFolder |-> f] :
                          id \in AttachIDs, f \in AttachFolders}

\* every transcript with two decodings, and one transcript with every decoding
AttachInputs ==
    {[up |-> u, dec |-> d, ext |-> e] :
         u \in UpAnswers,
         d \in {DecFailed, [ok |-> TRUE, ContainerID |-> <<"a">>,
                            RemoteWorkspaceFolder |-> <<"/">>]},
         e \in {FALSE}}
    \cup {[up |-> u, dec |-> d, ext |-> e] :
              u \in {[ok |-> TRUE, out |-> <<"{">>]}, d \in Decodings,
              e \in BOOLEAN}

OneContainer(p) ==
    [up |-> TRUE, containers |-> <<[id |-> <<"a">>, running |-> TRUE, port |-> p]>>]

IsInjective(s) == \A i, j \in 1..Len(s) : s[i] = s[j] => i = j

Listings(root) ==
    {<<root>> \o extra : extra \in {e \in SeqsUpTo(Candidates, MaxWorktrees) :
                                        IsInjective(e)}}

-----------------------------------------------------------------------------
(* Container runtime *)

\* docker.up: the daemon answers; docker.containers: the containers labelled
\* devcontainer.local_folder=<dir>, newest first, each [id, running, port],
\* where port is the host port published for 1080/tcp (Empty: none published)

gitVars == <<cwdKind, mainDir, cwd, listing>>

ContainerIDs == { <<"a">>, <<"b">> }

HostPorts == { Empty, <<"1">>, <<"2">> }

NoContainers == [up |-> TRUE, containers |-> <<>>]

RECURSIVE IdLines(_)
\* one identifier per line, running containers only
IdLines(cs) ==
    IF cs = <<>> THEN Empty
    ELSE (IF Head(cs).running THEN Head(cs).id \o <<"\n">> ELSE Empty)
         \o IdLines(Tail(cs))

\* the container runtime has a running container `id` that publishes 1080/tcp
Published(id) ==
    \E i \in 1..Len(docker.containers) :
        /\ docker.containers[i].id = id
        /\ docker.containers[i].running
        /\ docker.containers[i].port # Empty

PublishedPort(id) ==
    docker.containers[CHOOSE i \in 1..Len(docker.containers) :
                          docker.containers[i].id = id].port

\* `docker ps -q --filter label=devcontainer.local_folder=<dir>`
dockerPs(dir) ==
    IF ~docker.up THEN Failed
    ELSE [ok |-> TRUE, out |-> IdLines(docker.containers)]

\* `docker port <id> 1080`: one host:port line per address family, or exit
\* status 1 when the container is gone, stopped or publishes no such port
dockerPort(id) ==
    IF ~docker.up \/ ~Published(id) THEN Failed
    ELSE [ok |-> TRUE,
          out |-> <<"0", ".", "0", ".", "0", ".", "0", ":">> \o PublishedPort(id)
                  \o <<"\n", "[", ":", ":", "]", ":">> \o PublishedPort(id)
                  \o <<"\n">>]

\* what happens to the containers while getProxyPort runs
ContainerStart(id, p) ==
    /\ pc # "done"
    /\ docker.up
    /\ Len(docker.containers) < MaxContainers
    /\ \A i \in 1..Len(docker.containers) : docker.containers[i].id # id
    /\ docker' = [docker EXCEPT !.containers =
                      <<[id |-> id, running |-> TRUE, port |-> p]>> \o @]
    /\ UNCHANGED <<gitVars, callVars, proxyVars, cmdVars>>

ContainerStop(i) ==
    /\ pc # "done"
    /\ docker.up
    /\ i \in 1..Len(docker.containers)
    /\ docker.containers[i].running
    /\ docker' = [docker EXCEPT !.containers[i].running = FALSE]
    /\ UNCHANGED <<gitVars, callVars, proxyVars, cmdVars>>

ContainerRemove(i) ==
    /\ pc # "done"
    /\ docker.up
    /\ i \in 1..Len(docker.containers)
    /\ docker' = [docker EXCEPT !.containers =
                      SubSeq(@, 1, i - 1) \o SubSeq(@, i + 1, Len(@))]
    /\ UNCHANGED <<gitVars, callVars, proxyVars, cmdVars>>

DaemonStop ==
    /\ pc # "done"
    /\ docker.up
    /\ docker' = [docker EXCEPT !.up = FALSE]
    /\ UNCHANGED <<gitVars, callVars, proxyVars, cmdVars>>

-----------------------------------------------------------------------------
(* Editor attachment *)

\* A string constant of the source that the program only concatenates or
\* passes on (a flag, a URI scheme) is kept as one element of the sequence.

ErrUpFailed == "devcontainer up failed"
ErrNoJSON == "devcontainer up produced no JSON output"
ErrParseUp == "failed to parse devcontainer up output"
ErrFindExec == "failed to find"

RECURSIVE firstJSONLine(_, _)
\* the scan of the transcript stopping at the first line that begins with '{'
firstJSONLine(lines, acc) ==
    IF lines = <<>> THEN acc
    ELSE IF HasPrefix(TrimSpace(Head(lines)), <<"{">>)
         THEN TrimSpace(Head(lines))
         ELSE firstJSONLine(Tail(lines), acc)

RECURSIVE lastJSONLine(_, _)
\* the loop over the lines of the transcript: jsonLine after `lines`, when it
\* was acc before (Empty is nil; an assigned jsonLine begins with '{')
lastJSONLine(lines, acc) ==
    IF lines = <<>> THEN acc
    ELSE lastJSONLine(Tail(lines),
                      IF HasPrefix(TrimSpace(Head(lines)), <<"{">>)
                      THEN TrimSpace(Head(lines))
                      ELSE acc)

\* encoding/hex: hextable
hextable == <<"0", "1", "2", "3", "4", "5", "6", "7",
              "8", "9", "a", "b", "c", "d", "e", "f">>

\* the byte of a character (ASCII)
ByteOf(c) ==
    CASE c = " " -> 32
      [] c = "#" -> 35
      [] c = "%" -> 37
      [] c = "/" -> 47
      [] c = "1" -> 49
      [] c = "6" -> 54
      [] c = ":" -> 58
      [] c = "?" -> 63
      [] c = "@" -> 64
      [] c = "a" -> 97
      [] c = "b" -> 98

\* hex encoding that keeps one digit per byte, the high nibble
EncodeToString_HighNibble(src) ==
    [i \in 1..Len(src) |-> hextable[(ByteOf(src[i]) \div 16) + 1]]

\* hex.EncodeToString: two digits per byte, the high nibble first
EncodeToString(src) ==
    [i \in 1..(2 * Len(src)) |->
        IF i % 2 = 1
        THEN hextable[(ByteOf(src[(i + 1) \div 2]) \div 16) + 1]
        ELSE hextable[(ByteOf(src[i \div 2]) % 16) + 1]]

\* fmt.Sprintf("vscode-remote://attached-container+%s%s", hexID, folder)
folderURIOf(ContainerID, RemoteWorkspaceFolder) ==
    <<"vscode-remote://attached-container+">> \o EncodeToString(ContainerID)
        \o RemoteWorkspaceFolder

DefaultExtDir == <<"~/.vscode/extensions">>

\* codeArgs before the proxy setting; ext: the default extensions directory
\* exists
codeArgsOf(d, uri, ext) ==
    << <<"--user-data-dir">>, Join(d, <<".vscode-profile">>),
       <<"--folder-uri">>, uri >>
    \o (IF ext THEN << <<"--extensions-dir">>, DefaultExtDir >> ELSE <<>>)

NoResult == [ContainerID |-> Empty, RemoteWorkspaceFolder |-> Empty]

\* openDevcontainer up to the call of getProxyPort. up: how `devcontainer up`
\* ends, [ok, out]; dec: what json.Unmarshal makes of jsonLine,
\* [ok, ContainerID, RemoteWorkspaceFolder]; ext: as in codeArgsOf
openDevcontainer(up, dec, ext) ==
    LET Fail(e, o, line) ==
            /\ step' = "done"
            /\ cmdErr' = e
            /\ upOut' = o
            /\ jsonLine' = line
            /\ UNCHANGED <<result, folderURI, argv>>
        Decoded(line) ==
            IF ~dec.ok THEN Fail(ErrParseUp, up.out, line)
            ELSE /\ upOut' = up.out
                 /\ jsonLine' = line
                 /\ result' = [ContainerID |-> dec.ContainerID,
                               RemoteWorkspaceFolder |-> dec.RemoteWorkspaceFolder]
                 /\ folderURI' = folderURIOf(dec.ContainerID, dec.RemoteWorkspaceFolder)
                 /\ argv' = codeArgsOf(cmdDir, folderURI', ext)
                 /\ step' = "getProxyPort"
                 /\ UNCHANGED cmdErr
        Scanned(line) ==
            IF line = Empty THEN Fail(ErrNoJSON, up.out, line) ELSE Decoded(line)
    IN
    /\ step = "openDevcontainer"
    /\ IF ~up.ok THEN Fail(ErrUpFailed, upOut, jsonLine)
       ELSE Scanned(lastJSONLine(Split(up.out, "\n"), Empty))
    /\ UNCHANGED <<cmd, cmdArgs, cmdDir, cmdExtra, calls, launched>>
    /\ UNCHANGED <<envVars, callVars, proxyVars>>

\* "--proxy-server=socks5://127.0.0.1:"+port
proxyServerArg(p) == <<"--proxy-server=socks5://127.0.0.1:">> \o p

\* sysExec(argv0, a): found says whether exec.LookPath finds argv0
sysExec(argv0, a, found) ==
    IF ~found
    THEN /\ cmdErr' = ErrFindExec
         /\ UNCHANGED launched
    ELSE /\ launched' = Append(launched, [bin |-> argv0, args |-> a])
         /\ UNCHANGED cmdErr

\* the rest of openDevcontainer, once getProxyPort has returned
openDevcontainerExec(found) ==
    /\ cmd = "code"
    /\ step = "getProxyPort"
    /\ pc = "done"
    /\ argv' = IF err = NoErr THEN Append(argv, proxyServerArg(port)) ELSE argv
    /\ sysExec(<<"code">>, argv', found)
    /\ step' = "done"
    /\ UNCHANGED <<cmd, cmdArgs, cmdDir, cmdExtra, calls, upOut, jsonLine, result,
                   folderURI>>
    /\ UNCHANGED <<envVars, callVars, proxyVars>>

\* getProxyPort(dir) as called by a command
callGetProxyPort ==
    /\ step = "getProxyPort"
    /\ \/ getProxyPortPs(cmdDir, dockerPs(cmdDir))
       \/ getProxyPortPort(dockerPort(containerID))

-----------------------------------------------------------------------------
(* Host-alias normalization: net/url as normalizeLocalhostURL uses it *)

\* Arguments are made of letters, digits, '.', ':', '/', '?', '#', '@', ' '
\* and '%': no control characters, no '[' (no IP literals in the host).

LowerLetters == {"a", "b", "c", "f", "g", "h", "l", "o", "p", "q", "s", "t", "u", "x"}
UpperLetters == {"H", "L", "P", "T"}
Digits == {"0", "1", "2", "3", "7", "9"}
AlphaNum == LowerLetters \cup UpperLetters \cup Digits

ToLowerChar(c) ==
    CASE c = "H" -> "h"
      [] c = "L" -> "l"
      [] c = "P" -> "p"
      [] c = "T" -> "t"
      [] OTHER -> c

ToLower(s) == [i \in 1..Len(s) |-> ToLowerChar(s[i])]

HasSuffix(s, suffix) ==
    /\ Len(suffix) <= Len(s)
    /\ SubSeq(s, Len(s) - Len(suffix) + 1, Len(s)) = suffix

Count(s, c) == Cardinality({i \in 1..Len(s) : s[i] = c})

\* strings.Cut(s, sep) for a one-character separator
CutByte(s, c) ==
    LET At(i) == IF i = 0
                 THEN [before |-> s, after |-> Empty, found |-> FALSE]
                 ELSE [before |-> SubSeq(s, 1, i - 1),
                       after |-> SubSeq(s, i + 1, Len(s)), found |-> TRUE]
    IN At(IndexByte(s, c))

\* net/url shouldEscape, for the modes "path", "fragment", "userPassword", "host"
shouldEscape(c, mode) ==
    IF c \in AlphaNum THEN FALSE
    ELSE IF mode = "host" /\ c \in {"!", "$", "&", "'", "(", ")", "*", "+", ",",
                                    ";", "=", ":", "[", "]", "<", ">", "\""}
    THEN FALSE
    ELSE IF c \in {"-", "_", ".", "~"} THEN FALSE
    ELSE IF c \in {"$", "&", "+", ",", "/", ":", ";", "=", "?", "@"} /\ mode # "host"
    THEN CASE mode = "path" -> c = "?"
           [] mode = "userPassword" -> c \in {"@", "/", "?", ":"}
           [] mode = "fragment" -> FALSE
    ELSE IF mode = "fragment" /\ c \in {"!", "(", ")", "*"} THEN FALSE
    ELSE TRUE

upperhex == <<"0", "1", "2", "3", "4", "5", "6", "7",
              "8", "9", "A", "B", "C", "D", "E", "F">>

ishex(c) == \E i \in 1..16 : c = upperhex[i] \/ c = hextable[i]

unhex(c) == (CHOOSE i \in 1..16 : c = upperhex[i] \/ c = hextable[i]) - 1

\* the character of a byte
CharOf(b) == CHOOSE c \in {" ", "#", "%", "/", ":", "?", "@"} : ByteOf(c) = b

RECURSIVE escape(_, _)
\* net/url escape: %XX for every character that shouldEscape names
escape(s, mode) ==
    IF s = Empty THEN Empty
    ELSE (IF shouldEscape(s[1], mode)
          THEN <<"%", upperhex[(ByteOf(s[1]) \div 16) + 1],
                 upperhex[(ByteOf(s[1]) % 16) + 1]>>
          ELSE <<s[1]>>)
         \o escape(Tail(s), mode)

RECURSIVE unescape(_, _)
\* net/url unescape: [s, ok]
unescape(s, mode) ==
    LET bad == [s |-> Empty, ok |-> FALSE]
        Cons(c, r) == IF r.ok THEN [s |-> <<c>> \o r.s, ok |-> TRUE] ELSE bad
    IN
    IF s = Empty THEN [s |-> Empty, ok |-> TRUE]
    ELSE IF s[1] = "%"
    THEN IF Len(s) < 3 THEN bad
         ELSE IF ~ishex(s[2]) \/ ~ishex(s[3]) THEN bad
         ELSE IF mode = "host" /\ unhex(s[2]) < 8 /\ SubSeq(s, 1, 3) # <<"%", "2", "5">>
         THEN bad
         ELSE Cons(CharOf(16 * unhex(s[2]) + unhex(s[3])),
                   unescape(SubSeq(s, 4, Len(s)), mode))
    ELSE IF mode = "host" /\ shouldEscape(s[1], "host") THEN bad
    ELSE Cons(s[1], unescape(Tail(s), mode))

\* net/url validEncoded
validEncoded(s, mode) ==
    \A i \in 1..Len(s) :
        \/ s[i] \in {"!", "$", "&", "'", "(", ")", "*", "+", ",", ";", "=", ":",
                     "@", "[", "]", "%"}
        \/ ~shouldEscape(s[i], mode)

RECURSIVE getSchemeAt(_, _)
\* net/url getScheme, the loop from index i on: [scheme, rest, ok]
getSchemeAt(rawURL, i) ==
    IF i > Len(rawURL) THEN [scheme |-> Empty, rest |-> rawURL, ok |-> TRUE]
    ELSE IF rawURL[i] \in LowerLetters \cup UpperLetters
    THEN getSchemeAt(rawURL, i + 1)
    ELSE IF rawURL[i] \in Digits \cup {"+", "-", "."}
    THEN IF i = 1 THEN [scheme |-> Empty, rest |-> rawURL, ok |-> TRUE]
         ELSE getSchemeAt(rawURL, i + 1)
    ELSE IF rawURL[i] = ":"
    THEN IF i = 1 THEN [scheme |-> Empty, rest |-> Empty, ok |-> FALSE]
         ELSE [scheme |-> SubSeq(rawURL, 1, i - 1),
               rest |-> SubSeq(rawURL, i + 1, Len(rawURL)), ok |-> TRUE]
    ELSE [scheme |-> Empty, rest |-> rawURL, ok |-> TRUE]

getScheme(rawURL) == getSchemeAt(rawURL, 1)

\* net/url validOptionalPort: "" or ":" and digits
validOptionalPort(p) ==
    \/ p = Empty
    \/ /\ p[1] = ":"
       /\ \A i \in 2..Len(p) : p[i] \in {"0", "1", "2", "3", "4", "5", "6", "7", "8", "9"}

\* net/url parseHost (no IP literal): [s, ok]
parseHost(host) ==
    LET At(i) ==
            IF i # 0 /\ ~validOptionalPort(SubSeq(host, i, Len(host)))
            THEN [s |-> Empty, ok |-> FALSE]
            ELSE unescape(host, "host")
    IN At(LastIndexByte(host, ":"))

\* net/url validUserinfo
validUserinfo(s) ==
    \A i \in 1..Len(s) :
        s[i] \in AlphaNum \cup {"-", ".", "_", ":", "~", "!", "$", "&", "'", "(", ")",
                                "*", "+", ",", ";", "=", "%", "@"}

NoUser == [set |-> FALSE, username |-> Empty, password |-> Empty, passwordSet |-> FALSE]

\* net/url parseAuthority: [User, Host, ok]
parseAuthority(authority) ==
    LET bad == [User |-> NoUser, Host |-> Empty, ok |-> FALSE]
        WithUser(h, cut, name, pass) ==
            IF ~cut.found
            THEN IF ~name.ok THEN bad
                 ELSE [User |-> [set |-> TRUE, username |-> name.s,
                                 password |-> Empty, passwordSet |-> FALSE],
                       Host |-> h.s, ok |-> TRUE]
            ELSE IF ~name.ok \/ ~pass.ok THEN bad
                 ELSE [User |-> [set |-> TRUE, username |-> name.s,
                                 password |-> pass.s, passwordSet |-> TRUE],
                       Host |-> h.s, ok |-> TRUE]
        Userinfo(h, userinfo, cut) ==
            IF ~validUserinfo(userinfo) THEN bad
            ELSE IF ~cut.found
            THEN WithUser(h, cut, unescape(userinfo, "userPassword"), bad)
            ELSE WithUser(h, cut, unescape(cut.before, "userPassword"),
                          unescape(cut.after, "userPassword"))
        At(i, h) ==
            IF ~h.ok THEN bad
            ELSE IF i = 0 THEN [User |-> NoUser, Host |-> h.s, ok |-> TRUE]
            ELSE Userinfo(h, SubSeq(authority, 1, i - 1),
                          CutByte(SubSeq(authority, 1, i - 1), ":"))
        Last(i) == At(i, parseHost(SubSeq(authority, i + 1, Len(authority))))
    IN Last(LastIndexByte(authority, "@"))

EmptyURL ==
    [ok |-> TRUE, Scheme |-> Empty, Opaque |-> Empty, User |-> NoUser,
     Host |-> Empty, Path |-> Empty, RawPath |-> Empty, OmitHost |-> FALSE,
     ForceQuery |-> FALSE, RawQuery |-> Empty, Fragment |-> Empty,
     RawFragment |-> Empty]

BadURL == [EmptyURL EXCEPT !.ok = FALSE]

\* URL.setPath
setPath(u, p) ==
    LET Set(path) ==
            IF ~path.ok THEN BadURL
            ELSE [u EXCEPT !.Path = path.s,
                           !.RawPath = IF escape(path.s, "path") = p THEN Empty ELSE p]
    IN Set(unescape(p, "path"))

\* URL.setFragment
setFragment(u, f) ==
    LET Set(frag) ==
            IF ~frag.ok THEN BadURL
            ELSE [u EXCEPT !.Fragment = frag.s,
                           !.RawFragment =
                               IF escape(frag.s, "fragment") = f THEN Empty ELSE f]
    IN Set(unescape(f, "fragment"))

\* net/url parse(rawURL, viaRequest = false)
parse(rawURL) ==
    LET \* authority and path
        Authority(u, authority, rest, a) ==
            IF ~a.ok THEN BadURL
            ELSE setPath([u EXCEPT !.User = a.User, !.Host = a.Host], rest)
        Slashes(u, after, i) ==
            IF i = 0 THEN Authority(u, after, Empty, parseAuthority(after))
            ELSE Authority(u, SubSeq(after, 1, i - 1), SubSeq(after, i, Len(after)),
                           parseAuthority(SubSeq(after, 1, i - 1)))
        Hier(u, rest) ==
            IF (u.Scheme # Empty \/ ~HasPrefix(rest, <<"/", "/", "/">>))
               /\ HasPrefix(rest, <<"/", "/">>)
            THEN Slashes(u, SubSeq(rest, 3, Len(rest)),
                         IndexByte(SubSeq(rest, 3, Len(rest)), "/"))
            ELSE IF u.Scheme # Empty /\ HasPrefix(rest, <<"/">>)
            THEN setPath([u EXCEPT !.OmitHost = TRUE], rest)
            ELSE setPath(u, rest)
        Rootless(u, rest) ==
            IF HasPrefix(rest, <<"/">>) THEN Hier(u, rest)
            ELSE IF u.Scheme # Empty THEN [u EXCEPT !.Opaque = rest]
            ELSE IF Contains(CutByte(rest, "/").before, ":") THEN BadURL
            ELSE Hier(u, rest)
        Query(u, rest, cut) ==
            IF HasSuffix(rest, <<"?">>) /\ Count(rest, "?") = 1
            THEN Rootless([u EXCEPT !.ForceQuery = TRUE],
                          SubSeq(rest, 1, Len(rest) - 1))
            ELSE Rootless([u EXCEPT !.RawQuery = cut.after], cut.before)
        Scheme(sch) ==
            IF ~sch.ok THEN BadURL
            ELSE Query([EmptyURL EXCEPT !.Scheme = ToLower(sch.scheme)], sch.rest,
                       CutByte(sch.rest, "?"))
    IN IF rawURL = <<"*">> THEN [EmptyURL EXCEPT !.Path = <<"*">>]
       ELSE Scheme(getScheme(rawURL))

\* url.Parse
urlParse(rawURL) ==
    LET Frag(u, frag) ==
            IF ~u.ok THEN BadURL
            ELSE IF frag = Empty THEN u
            ELSE setFragment(u, frag)
        Whole(cut) == Frag(parse(cut.before), cut.after)
    IN Whole(CutByte(rawURL, "#"))

\* net/url splitHostPort: [host, port]
urlSplitHostPort(hostPort) ==
    LET Unbracket(host, p) ==
            IF HasPrefix(host, <<"[">>) /\ HasSuffix(host, <<"]">>)
            THEN [host |-> SubSeq(host, 2, Len(host) - 1), port |-> p]
            ELSE [host |-> host, port |-> p]
        At(colon) ==
            IF colon # 0 /\ validOptionalPort(SubSeq(hostPort, colon, Len(hostPort)))
            THEN Unbracket(SubSeq(hostPort, 1, colon - 1),
                           SubSeq(hostPort, colon + 1, Len(hostPort)))
            ELSE Unbracket(hostPort, Empty)
    IN At(LastIndexByte(hostPort, ":"))

\* URL.Hostname, URL.Port
Hostname(u) == urlSplitHostPort(u.Host).host

Port(u) == urlSplitHostPort(u.Host).port

\* net.JoinHostPort
JoinHostPort(host, p) ==
    IF IndexByte(host, ":") # 0 THEN <<"[">> \o host \o <<"]", ":">> \o p
    ELSE host \o <<":">> \o p

\* URL.EscapedPath
EscapedPath(u) ==
    LET Raw(p) == IF p.ok /\ p.s = u.Path THEN u.RawPath
                  ELSE IF u.Path = <<"*">> THEN u.Path
                  ELSE escape(u.Path, "path")
    IN IF u.RawPath # Empty /\ validEncoded(u.RawPath, "path")
       THEN Raw(unescape(u.RawPath, "path"))
       ELSE IF u.Path = <<"*">> THEN u.Path
       ELSE escape(u.Path, "path")

\* URL.EscapedFragment
EscapedFragment(u) ==
    LET Raw(f) == IF f.ok /\ f.s = u.Fragment THEN u.RawFragment
                  ELSE escape(u.Fragment, "fragment")
    IN IF u.RawFragment # Empty /\ validEncoded(u.RawFragment, "fragment")
       THEN Raw(unescape(u.RawFragment, "fragment"))
       ELSE escape(u.Fragment, "fragment")

\* Userinfo.String
UserinfoString(user) ==
    escape(user.username, "userPassword")
    \o (IF user.passwordSet
        THEN <<":">> \o escape(user.password, "userPassword") ELSE Empty)

\* URL.String
urlString(u) ==
    LET scheme == IF u.Scheme # Empty THEN u.Scheme \o <<":">> ELSE Empty
        authority ==
            IF u.Scheme # Empty \/ u.Host # Empty \/ u.User.set
            THEN IF u.OmitHost /\ u.Host = Empty /\ ~u.User.set THEN Empty
                 ELSE (IF u.Host # Empty \/ u.Path # Empty \/ u.User.set
                       THEN <<"/", "/">> ELSE Empty)
                      \o (IF u.User.set THEN UserinfoString(u.User) \o <<"@">>
                          ELSE Empty)
                      \o (IF u.Host # Empty THEN escape(u.Host, "host") ELSE Empty)
            ELSE Empty
        Hier(buf, path) ==
            buf
            \o (IF path # Empty /\ path[1] # "/" /\ u.Host # Empty
                THEN <<"/">> ELSE Empty)
            \o (IF buf = Empty /\ Contains(CutByte(path, "/").before, ":")
                THEN <<".", "/">> ELSE Empty)
            \o path
    IN (IF u.Opaque # Empty THEN scheme \o u.Opaque
        ELSE Hier(scheme \o authority, EscapedPath(u)))
       \o (IF u.ForceQuery \/ u.RawQuery # Empty THEN <<"?">> \o u.RawQuery
           ELSE Empty)
       \o (IF u.Fragment # Empty THEN <<"#">> \o EscapedFragment(u) ELSE Empty)

Localhost == <<"l", "o", "c", "a", "l", "h", "o", "s", "t">>

Loopback == <<"1", "2", "7", ".", "0", ".", "0", ".", "1">>

\* normalizeLocalhostURL that also rewrites a hostname beginning with localhost
normalizeLocalhostURL_Prefix(arg) ==
    LET Rewrite(parsed) ==
            urlString([parsed EXCEPT !.Host =
                           IF Port(parsed) = Empty THEN Loopback
                           ELSE JoinHostPort(Loopback, Port(parsed))])
        Parsed(parsed) ==
            IF ~parsed.ok THEN arg
            ELSE IF parsed.Host = Empty THEN arg
            ELSE IF ~HasPrefix(Hostname(parsed), Localhost) THEN arg
            ELSE Rewrite(parsed)
    IN Parsed(urlParse(arg))

normalizeLocalhostURL(arg) ==
    LET Rewrite(parsed) ==
            urlString([parsed EXCEPT !.Host =
                           IF Port(parsed) = Empty THEN Loopback
                           ELSE JoinHostPort(Loopback, Port(parsed))])
        Parsed(parsed) ==
            IF ~parsed.ok THEN arg
            ELSE IF parsed.Host = Empty THEN arg
            ELSE IF Hostname(parsed) # Localhost THEN arg
            ELSE Rewrite(parsed)
    IN Parsed(urlParse(arg))

\* arguments of the browser and curl commands, put together from parts
URLSchemes == { Empty, <<"h", "t", "t", "p", ":">>, <<"H", "T", "T", "P", ":">>, <<":">> }

URLSlashes == { Empty, <<"/", "/">> }

URLUsers == { Empty, <<"u", "@">>, <<"u", ":", "p", "@">> }

URLHosts ==
    { Localhost, <<"L">> \o Tail(Localhost), Localhost \o <<"x">>, <<"x">>, Empty,
      <<"a", " ", "b">> }

URLPorts == { Empty, <<":">>, <<":", "9">>, <<":", "x">> }

URLRests ==
    { Empty, <<"/">>, <<"/", "a", " ", "b">>, <<"/", "a", "%", "2", "0", "b">>, <<"?", "q">>, <<"/", "?">>, <<"#", "f", " ", "g">>, <<"/", "a", "?", "q", "#", "f">> }

URLArgs ==
    { sch \o sl \o us \o h \o po \o r :
          sch \in URLSchemes, sl \in URLSlashes, us \in URLUsers, h \in URLHosts,
          po \in URLPorts, r \in URLRests }

-----------------------------------------------------------------------------
(* Actions: one call of a function from a fresh process *)

DoValidateWorktreeName(name) ==
    /\ op = "none"
    /\ op' = "validateWorktreeName"
    /\ in' = name
    /\ res' = validateWorktreeName(name)
    /\ UNCHANGED lastPath
    /\ UNCHANGED envVars
    /\ UNCHANGED cmdVars
    /\ UNCHANGED proxyVars

\* encode with worktreeDirName, decode the result with parseWorktreeName
DoCodec(repoBasename, name) ==
    /\ op = "none"
    /\ op' = "codec"
    /\ in' = [repoBasename |-> repoBasename, name |-> name]
    /\ res' = [err |-> validateWorktreeName(name),
               dirName |-> worktreeDirName(repoBasename, name),
               parsed |-> parseWorktreeName(worktreeDirName(repoBasename, name),
                                            repoBasename)]
    /\ UNCHANGED lastPath
    /\ UNCHANGED envVars
    /\ UNCHANGED cmdVars
    /\ UNCHANGED proxyVars

\* at most two calls in a row, in the same repository: lastPath keeps the
\* first call's name and result
DoResolveWorktreePath(name) ==
    /\ op = "none" \/ (op = "resolveWorktreePath" /\ lastPath = <<>>)
    /\ op' = "resolveWorktreePath"
    /\ in' = name
    /\ res' = resolveWorktreePath(name)
    /\ lastPath' = IF op = "resolveWorktreePath"
                   THEN <<[name |-> in, path |-> res.path, err |-> res.err]>>
                   ELSE lastPath
    /\ calls' = calls \o callsResolveWorktreePath(name)
    /\ UNCHANGED envVars
    /\ UNCHANGED <<cmd, cmdArgs, step, cmdDir, cmdExtra, argv, upOut, jsonLine,
                   result, folderURI, launched, cmdErr>>
    /\ UNCHANGED proxyVars

DoResolveCurrentWorktreeName ==
    /\ op = "none"
    /\ op' = "resolveCurrentWorktreeName"
    /\ in' = <<>>
    /\ res' = resolveCurrentWorktreeName
    /\ UNCHANGED lastPath
    /\ UNCHANGED envVars
    /\ UNCHANGED cmdVars
    /\ UNCHANGED proxyVars

DoGetWorktreeNames(prefix) ==
    /\ op = "none"
    /\ op' = "getWorktreeNames"
    /\ in' = prefix
    /\ res' = getWorktreeNames(prefix)
    /\ UNCHANGED lastPath
    /\ UNCHANGED envVars
    /\ UNCHANGED cmdVars
    /\ UNCHANGED proxyVars

\* res.opt holds the locals (name, extra, err) of resolveWorkspaceFolder, the
\* answer of the argument disambiguator; res.ret what it returns
DoResolveWorkspaceFolder(args) ==
    /\ op = "none"
    /\ op' = "resolveWorkspaceFolder"
    /\ in' = args
    /\ res' = [opt |-> resolveOptionalWorktreeArgs(args),
               ret |-> resolveWorkspaceFolder(args)]
    /\ UNCHANGED lastPath
    /\ UNCHANGED envVars
    /\ UNCHANGED cmdVars
    /\ UNCHANGED proxyVars

DoNormalizeLocalhostURL(arg) ==
    /\ op = "none"
    /\ op' = "normalizeLocalhostURL"
    /\ in' = arg
    /\ res' = normalizeLocalhostURL(arg)
    /\ UNCHANGED lastPath
    /\ UNCHANGED envVars
    /\ UNCHANGED cmdVars
    /\ UNCHANGED proxyVars

-----------------------------------------------------------------------------
(* Commands taking a worktree name: add, rm, cd, code *)

ErrExists == "already exists"
ErrAddFailed == "git worktree add failed"
ErrAborted == "aborted"
ErrExitStatus == "exit status"

resolveNameArg(name) ==
    LET Valid(v) ==
            IF v # NoErr THEN [name |-> Empty, err |-> v]
            ELSE [name |-> name, err |-> NoErr]
    IN IF name = <<".">> THEN resolveCurrentWorktreeName
       ELSE Valid(validateWorktreeName(name))

callsResolveNameArg(name) ==
    IF name = <<".">> THEN callsResolveCurrentWorktreeName ELSE <<>>

\* os.Stat(path) finds something: a checkout git lists, or, if stray, a file
\* or directory git does not know
Exists(path, stray) == InSeq(path, listing) \/ stray

\* runAdd(cmd, args) with name = args[0]. e.stray: as in Exists; e.origin: the
\* remote origin is configured; e.addOk: `git worktree add` succeeds.
\* The result: the error, the path, whether the checkout was added, the calls
runAdd(name, e) ==
    LET Out(er, p, ad, c) == [err |-> er, path |-> p, added |-> ad, calls |-> c]
        Create(p, c) ==
            IF ~e.addOk
            THEN Out(ErrAddFailed, p, FALSE, c \o <<Vcs("git worktree add --detach")>>)
            ELSE Out(NoErr, p, TRUE,
                     c \o <<Vcs("git worktree add --detach"),
                            Fs("copy .env, .envrc, .devcontainer/.env")>>)
        Fetch(p, c) ==
            Create(p, c \o callsGetCurrentWorktreeRoot
                       \o (IF getCurrentWorktreeRoot.err # NoErr
                           THEN <<Fs("os.Getwd")>> ELSE <<>>)
                       \o <<Vcs("git config worktree.useRelativePaths true"),
                            Vcs("git remote get-url origin")>>
                       \o (IF e.origin THEN <<Vcs("git fetch origin")>> ELSE <<>>))
        Stat(p, c) ==
            IF Exists(p, e.stray) THEN Out(ErrExists, p, FALSE, c \o <<Fs("os.Stat")>>)
            ELSE Fetch(p, c \o <<Fs("os.Stat")>>)
        Path(r, c) ==
            IF r.err # NoErr THEN Out(r.err, Empty, FALSE, c) ELSE Stat(r.path, c)
        Valid(v) ==
            IF v # NoErr THEN Out(v, Empty, FALSE, <<>>)
            ELSE Path(resolveWorktreePath(name), callsResolveWorktreePath(name))
    IN Valid(validateWorktreeName(name))

\* runRemove(cmd, args). e.rmOk: `git worktree remove` accepts to remove a
\* checkout it lists; e.stray: files are left behind at the path.
\* The result: the error, the path, whether the checkout was removed, the calls
runRemove(args, e) ==
    LET Out(er, p, rm, c) == [err |-> er, path |-> p, removed |-> rm, calls |-> c]
        Remove(p, c) ==
            IF ~(InSeq(p, listing) /\ e.rmOk)
            THEN Out(ErrExitStatus, p, FALSE, c \o <<Vcs("git worktree remove")>>)
            ELSE Out(NoErr, p, TRUE,
                     c \o <<Vcs("git worktree remove"), Fs("os.Stat")>>
                       \o (IF e.stray THEN <<Fs("os.RemoveAll")>> ELSE <<>>))
        Path(r, c) ==
            IF r.err # NoErr THEN Out(r.err, Empty, FALSE, c) ELSE Remove(r.path, c)
        Named(n, c) ==
            IF n.err # NoErr THEN Out(n.err, Empty, FALSE, c)
            ELSE Path(resolveWorktreePath(n.name),
                      c \o callsResolveWorktreePath(n.name))
    IN Named(resolveNameArg(args[1]), callsResolveNameArg(args[1]))

\* resolveWorktreeDir(cmd, args). e.create: the flag --create; e.confirm: the
\* answer to confirmCreate; the rest of e as in runAdd.
\* The result: the error, the directory, whether a checkout was added, the calls
resolveWorktreeDir(args, e) ==
    LET Out(er, d, ad, c) == [err |-> er, dir |-> d, added |-> ad, calls |-> c]
        Added(d, a, c) ==
            IF a.err # NoErr THEN Out(a.err, Empty, FALSE, c \o a.calls)
            ELSE Out(NoErr, d, a.added, c \o a.calls)
        Stat(d, c) ==
            IF Exists(d, e.stray) THEN Out(NoErr, d, FALSE, c)
            ELSE IF ~e.create /\ ~e.confirm THEN Out(ErrAborted, Empty, FALSE, c)
            ELSE Added(d, runAdd(args[1], e), c)
        Path(r, c) ==
            IF r.err # NoErr THEN Out(r.err, Empty, FALSE, c)
            ELSE Stat(r.path, c \o <<Fs("os.Stat")>>)
        Named(n, c) ==
            IF n.err # NoErr THEN Out(n.err, Empty, FALSE, c)
            ELSE Path(resolveWorktreePath(n.name),
                      c \o callsResolveWorktreePath(n.name))
        Main(m) == Out(m.err, m.path, FALSE, callsGetMainRepoRoot)
    IN IF Len(args) = 0 THEN Main(getMainRepoRoot)
       ELSE Named(resolveNameArg(args[1]), callsResolveNameArg(args[1]))

Without(s, x) == SelectSeq(s, LAMBDA y : y # x)

\* a command ending at once: nothing of the attachment or of the launch is set
EndsHere ==
    /\ step' = "done"
    /\ UNCHANGED <<cmdExtra, argv, upOut, jsonLine, result, folderURI>>

DoRunAdd(args, e) ==
    LET Ran(r) ==
            /\ cmdErr' = r.err
            /\ cmdDir' = r.path
            /\ calls' = r.calls
            /\ listing' = IF r.added THEN Append(listing, r.path) ELSE listing
    IN
    /\ cmd = "none"
    /\ Len(args) = 1
    /\ cmd' = "add"
    /\ cmdArgs' = args
    /\ Ran(runAdd(args[1], e))
    /\ EndsHere
    /\ UNCHANGED <<launched, cwdKind, mainDir, cwd, docker>>
    /\ UNCHANGED <<callVars, proxyVars>>

DoRunRemove(args, e) ==
    LET Ran(r) ==
            /\ cmdErr' = r.err
            /\ cmdDir' = r.path
            /\ calls' = r.calls
            /\ listing' = IF r.removed THEN Without(listing, r.path) ELSE listing
    IN
    /\ cmd = "none"
    /\ Len(args) >= 1
    /\ cmd' = "rm"
    /\ cmdArgs' = args
    /\ Ran(runRemove(args, e))
    /\ EndsHere
    /\ UNCHANGED <<launched, cwdKind, mainDir, cwd, docker>>
    /\ UNCHANGED <<callVars, proxyVars>>

\* execShellInDir(dir): the parent shell, started in dir
ParentShell == <<"sh">>

\* runCD starting the shell whatever resolveWorktreeDir returns
DoRunCD_IgnoresErr(args, e) ==
    LET Ran(r) ==
            /\ cmdDir' = r.dir
            /\ calls' = r.calls
            /\ listing' = IF r.added THEN Append(listing, r.dir) ELSE listing
            /\ sysExec(ParentShell, <<>>, e.found)
    IN
    /\ cmd = "none"
    /\ Len(args) <= 1
    /\ cmd' = "cd"
    /\ cmdArgs' = args
    /\ Ran(resolveWorktreeDir(args, e))
    /\ EndsHere
    /\ UNCHANGED <<cwdKind, mainDir, cwd, docker>>
    /\ UNCHANGED <<callVars, proxyVars>>

\* runCD(cmd, args). e.found: exec.LookPath finds the shell
DoRunCD(args, e) ==
    LET Ran(r) ==
            /\ cmdDir' = r.dir
            /\ calls' = r.calls
            /\ listing' = IF r.added THEN Append(listing, r.dir) ELSE listing
            /\ IF r.err # NoErr
               THEN cmdErr' = r.err /\ UNCHANGED launched
               ELSE sysExec(ParentShell, <<>>, e.found)
    IN
    /\ cmd = "none"
    /\ Len(args) <= 1
    /\ cmd' = "cd"
    /\ cmdArgs' = args
    /\ Ran(resolveWorktreeDir(args, e))
    /\ EndsHere
    /\ UNCHANGED <<cwdKind, mainDir, cwd, docker>>
    /\ UNCHANGED <<callVars, proxyVars>>

\* runCode(cmd, args) up to openDevcontainer(dir) or to the exec of code.
\* e.dc: .devcontainer/devcontainer.json exists; e.cli: exec.LookPath finds
\* devcontainer; e.found: exec.LookPath finds code
DoRunCode(args, e) ==
    LET Ran(r) ==
            /\ cmdDir' = r.dir
            /\ listing' = IF r.added THEN Append(listing, r.dir) ELSE listing
            /\ IF r.err # NoErr
               THEN /\ cmdErr' = r.err
                    /\ calls' = r.calls
                    /\ step' = "done"
                    /\ UNCHANGED launched
               ELSE /\ calls' = r.calls \o <<Fs("os.Stat")>>
                    /\ IF e.dc /\ e.cli
                       THEN /\ step' = "openDevcontainer"
                            /\ UNCHANGED <<launched, cmdErr>>
                       ELSE /\ step' = "done"
                            /\ sysExec(<<"code">>, <<r.dir>>, e.found)
    IN
    /\ cmd = "none"
    /\ Len(args) <= 1
    /\ cmd' = "code"
    /\ cmdArgs' = args
    /\ Ran(resolveWorktreeDir(args, e))
    /\ UNCHANGED <<cmdExtra, argv, upOut, jsonLine, result, folderURI>>
    /\ UNCHANGED <<cwdKind, mainDir, cwd, docker>>
    /\ UNCHANGED <<callVars, proxyVars>>

-----------------------------------------------------------------------------
(* Commands taking a workspace folder: chrome, playwright, curl, up, build *)

ErrNoChrome == "could not find Chrome or Chromium"
ErrProfileDir == "failed to create Chrome profile directory"
ErrNoNpx == "could not find npx"
ErrNoCurl == "could not find curl"
ErrStart == "fork/exec"

\* return err, before anything is kept of the resolution
ReturnErr(e) ==
    /\ cmdErr' = e
    /\ step' = "done"
    /\ UNCHANGED <<cmdDir, cmdExtra, argv>>

\* the command goes on to getProxyPort(dir) with the arguments a
ToProxyPort(r, a) ==
    /\ cmdDir' = r.dir
    /\ cmdExtra' = r.extra
    /\ argv' = a
    /\ step' = "getProxyPort"
    /\ UNCHANGED cmdErr

\* exec.Cmd.Start: started says whether the process could be started
cmdStart(bin, a, started) ==
    IF ~started
    THEN /\ cmdErr' = ErrStart
         /\ UNCHANGED launched
    ELSE /\ launched' = Append(launched, [bin |-> bin, args |-> a])
         /\ UNCHANGED cmdErr

\* exec.Cmd.Run: Start, then Wait; exit0 says whether the process exits with 0
cmdRun(bin, a, started, exit0) ==
    IF ~started
    THEN /\ cmdErr' = ErrStart
         /\ UNCHANGED launched
    ELSE /\ launched' = Append(launched, [bin |-> bin, args |-> a])
         /\ cmdErr' = IF exit0 THEN NoErr ELSE ErrExitStatus

\* the loop extra[i] = normalizeLocalhostURL(arg)
normalizeExtra(extra) ==
    [i \in 1..Len(extra) |-> normalizeLocalhostURL(extra[i])]

ChromeBin == <<"google-chrome">>

\* chromeArgs before the proxy setting
chromeArgsOf(d) ==
    << <<"--user-data-dir=">> \o Join(d, <<".chrome-profile">>),
       <<"--no-first-run">>, <<"--no-default-browser-check">>,
       <<"--disable-sync">>, <<"--disable-features=ChromeSignin">> >>

\* runChrome up to the call of getProxyPort. found: findChromeBinary finds a
\* browser; mk: os.MkdirAll makes the profile directory
runChrome(args, found, mk) ==
    LET Resolved(r) ==
            IF r.err # NoErr THEN ReturnErr(r.err)
            ELSE IF ~found THEN ReturnErr(ErrNoChrome)
            ELSE IF ~mk THEN ReturnErr(ErrProfileDir)
            ELSE ToProxyPort(r, chromeArgsOf(r.dir))
    IN
    /\ cmd = "none"
    /\ cmd' = "chrome"
    /\ cmdArgs' = args
    /\ Resolved(resolveWorkspaceFolder(args))
    /\ UNCHANGED <<calls, upOut, jsonLine, result, folderURI, launched>>
    /\ UNCHANGED <<envVars, callVars, proxyVars>>

\* the rest of runChrome, once getProxyPort has returned
runChromeStart(started) ==
    /\ cmd = "chrome"
    /\ step = "getProxyPort"
    /\ pc = "done"
    /\ step' = "done"
    /\ IF err # NoErr
       THEN /\ cmdErr' = err
            /\ UNCHANGED <<cmdExtra, argv, launched>>
       ELSE /\ cmdExtra' = normalizeExtra(cmdExtra)
            /\ argv' = argv \o << proxyServerArg(port),
                                  <<"--proxy-bypass-list=<-loopback>">> >>
                            \o cmdExtra'
            /\ cmdStart(ChromeBin, argv', started)
    /\ UNCHANGED <<cmd, cmdArgs, cmdDir, calls, upOut, jsonLine, result, folderURI>>
    /\ UNCHANGED <<envVars, callVars, proxyVars>>

\* runPlaywright up to the call of getProxyPort. found: exec.LookPath finds npx
runPlaywright(args, found) ==
    LET Resolved(r) ==
            IF r.err # NoErr THEN ReturnErr(r.err)
            ELSE IF ~found THEN ReturnErr(ErrNoNpx)
            ELSE ToProxyPort(r, <<>>)
    IN
    /\ cmd = "none"
    /\ cmd' = "playwright"
    /\ cmdArgs' = args
    /\ Resolved(resolveWorkspaceFolder(args))
    /\ UNCHANGED <<calls, upOut, jsonLine, result, folderURI, launched>>
    /\ UNCHANGED <<envVars, callVars, proxyVars>>

\* the rest of runPlaywright without the return on the error of getProxyPort:
\* the browser is started without the proxy setting
runPlaywrightStart_Unproxied(started) ==
    /\ cmd = "playwright"
    /\ step = "getProxyPort"
    /\ pc = "done"
    /\ step' = "done"
    /\ cmdExtra' = normalizeExtra(cmdExtra)
    /\ argv' = << <<"playwright">>, <<"open">> >>
                   \o (IF err = NoErr THEN <<proxyServerArg(port)>> ELSE <<>>)
                   \o cmdExtra'
    /\ cmdStart(<<"npx">>, argv', started)
    /\ UNCHANGED <<cmd, cmdArgs, cmdDir, calls, upOut, jsonLine, result, folderURI>>
    /\ UNCHANGED <<envVars, callVars, proxyVars>>

\* the rest of runPlaywright, once getProxyPort has returned
runPlaywrightStart(started) ==
    /\ cmd = "playwright"
    /\ step = "getProxyPort"
    /\ pc = "done"
    /\ step' = "done"
    /\ IF err # NoErr
       THEN /\ cmdErr' = err
            /\ UNCHANGED <<cmdExtra, argv, launched>>
       ELSE /\ cmdExtra' = normalizeExtra(cmdExtra)
            /\ argv' = << <<"playwright">>, <<"open">>, proxyServerArg(port) >>
                           \o cmdExtra'
            /\ cmdStart(<<"npx">>, argv', started)
    /\ UNCHANGED <<cmd, cmdArgs, cmdDir, calls, upOut, jsonLine, result, folderURI>>
    /\ UNCHANGED <<envVars, callVars, proxyVars>>

\* runCurl up to the call of getProxyPort. found: exec.LookPath finds curl
runCurl(args, found) ==
    LET Resolved(r) ==
            IF r.err # NoErr THEN ReturnErr(r.err)
            ELSE IF ~found THEN ReturnErr(ErrNoCurl)
            ELSE ToProxyPort(r, <<>>)
    IN
    /\ cmd = "none"
    /\ cmd' = "curl"
    /\ cmdArgs' = args
    /\ Resolved(resolveWorkspaceFolder(args))
    /\ UNCHANGED <<calls, upOut, jsonLine, result, folderURI, launched>>
    /\ UNCHANGED <<envVars, callVars, proxyVars>>

\* "socks5h://127.0.0.1:"+port
curlProxyArg(p) == <<"socks5h://127.0.0.1:">> \o p

\* the rest of runCurl, once getProxyPort has returned
runCurlRun(started, exit0) ==
    /\ cmd = "curl"
    /\ step = "getProxyPort"
    /\ pc = "done"
    /\ step' = "done"
    /\ IF err # NoErr
       THEN /\ cmdErr' = err
            /\ UNCHANGED <<cmdExtra, argv, launched>>
       ELSE /\ cmdExtra' = normalizeExtra(cmdExtra)
            /\ argv' = << <<"--proxy">>, curlProxyArg(port), <<"--noproxy">>, Empty >>
                           \o cmdExtra'
            /\ cmdRun(<<"curl">>, argv', started, exit0)
    /\ UNCHANGED <<cmd, cmdArgs, cmdDir, calls, upOut, jsonLine, result, folderURI>>
    /\ UNCHANGED <<envVars, callVars, proxyVars>>

\* runUp and runBuild: sysExec("devcontainer", [sub, "--workspace-folder", dir,
\* extra...])
runDevcontainer(sub, args, found) ==
    LET Resolved(r) ==
            IF r.err # NoErr
            THEN /\ cmdErr' = r.err
                 /\ UNCHANGED <<cmdDir, cmdExtra, argv, launched>>
            ELSE /\ cmdDir' = r.dir
                 /\ cmdExtra' = r.extra
                 /\ argv' = << <<sub>>, <<"--workspace-folder">>, r.dir >> \o r.extra
                 /\ sysExec(<<"devcontainer">>, argv', found)
    IN
    /\ cmd = "none"
    /\ cmd' = sub
    /\ cmdArgs' = args
    /\ Resolved(resolveWorkspaceFolder(args))
    /\ step' = "done"
    /\ UNCHANGED <<calls, upOut, jsonLine, result, folderURI>>
    /\ UNCHANGED <<envVars, callVars, proxyVars>>

DoRunUp(args, found) == runDevcontainer("up", args, found)

DoRunBuild(args, found) == runDevcontainer("build", args, found)

-----------------------------------------------------------------------------
(* The exec command and its command line *)

ErrUnknownFlag == "unknown shorthand flag"

\* "--", which ends the flags of a command line
Dash == <<"-", "-">>

\* the flags every command knows: --verbose, -v (and --help, -h)
KnownFlags == { <<"-", "v">>, <<"-", "-", "v", "e", "r", "b", "o", "s", "e">> }

RECURSIVE parseArgs(_)
\* what cobra hands to RunE as args once the flags of the command line are
\* parsed, for a command with SetInterspersed(false): the line from its first
\* token that is no flag on, "--" included unless it comes before that token
parseArgs(line) ==
    IF line = <<>> THEN [args |-> <<>>, err |-> NoErr]
    ELSE IF Len(Head(line)) <= 1 \/ Head(line)[1] # "-"
    THEN [args |-> line, err |-> NoErr]
    ELSE IF Head(line) = Dash THEN [args |-> Tail(line), err |-> NoErr]
    ELSE IF Head(line) \in KnownFlags THEN parseArgs(Tail(line))
    ELSE [args |-> <<>>, err |-> ErrUnknownFlag]

\* the command run in the devcontainer when none is given
DefaultShell ==
    << <<"/bin/sh">>, <<"-c">>,
       <<"command -v bash >/dev/null 2>&1 && exec bash || exec sh">> >>

\* runExec(cmd, args) for the command line `wt exec line...`. dc:
\* .devcontainer/devcontainer.json exists; found: exec.LookPath finds the
\* program to start
DoRunExec(line, dc, found) ==
    LET InContainer(r, c) ==
            /\ argv' = << <<"exec">>, <<"--workspace-folder">>, r.dir >> \o c
            /\ sysExec(<<"devcontainer">>, argv', found)
        Direct(r) ==
            IF Len(r.extra) = 0
            THEN /\ argv' = <<>>
                 /\ sysExec(ParentShell, <<>>, found)
            ELSE /\ argv' = Tail(r.extra)
                 /\ sysExec(Head(r.extra), argv', found)
        Resolved(r) ==
            IF r.err # NoErr
            THEN /\ cmdErr' = r.err
                 /\ UNCHANGED <<cmdDir, cmdExtra, argv, launched>>
            ELSE /\ cmdDir' = r.dir
                 /\ cmdExtra' = r.extra
                 /\ IF dc
                    THEN InContainer(r, IF Len(r.extra) = 0 THEN DefaultShell
                                        ELSE r.extra)
                    ELSE Direct(r)
        Parsed(p) ==
            IF p.err # NoErr
            THEN /\ cmdErr' = p.err
                 /\ UNCHANGED <<cmdDir, cmdExtra, argv, launched>>
            ELSE Resolved(resolveWorkspaceFolder(p.args))
    IN
    /\ cmd = "none"
    /\ cmd' = "exec"
    /\ cmdArgs' = line
    /\ Parsed(parseArgs(line))
    /\ step' = "done"
    /\ UNCHANGED <<calls, upOut, jsonLine, result, folderURI>>
    /\ UNCHANGED <<envVars, callVars, proxyVars>>

-----------------------------------------------------------------------------
(* Specifications *)

CallInit ==
    /\ op = "none"
    /\ in = <<>>
    /\ res = <<>>
    /\ lastPath = <<>>

CmdInit ==
    /\ cmd = "none"
    /\ cmdArgs = <<>>
    /\ step = "start"
    /\ cmdDir = Empty
    /\ cmdExtra = <<>>
    /\ argv = <<>>
    /\ calls = <<>>
    /\ upOut = Empty
    /\ jsonLine = Empty
    /\ result = NoResult
    /\ folderURI = Empty
    /\ launched = <<>>
    /\ cmdErr = NoErr

ProxyInit ==
    /\ pc = "idle"
    /\ out = Empty
    /\ containerID = Empty
    /\ port = Empty
    /\ err = NoErr
    /\ errArg = Empty
    /\ issued = <<>>

\* the process starts outside any repository, in the .git directory, or at the
\* root of one of the checkouts git lists
EnvInit(roots) ==
    /\ docker = NoContainers
    /\ mainDir \in roots
    /\ listing \in Listings(mainDir)
    /\ cwdKind \in {"outside", "gitdir", "worktree"}
    /\ cwd \in IF cwdKind = "outside" THEN {<<"/">>}
              ELSE IF cwdKind = "gitdir" THEN {Join(mainDir, DotGit)}
              ELSE {listing[i] : i \in 1..Len(listing)}

Init == EnvInit({RootP}) /\ CallInit /\ ProxyInit /\ CmdInit

Next ==
    \/ DoResolveCurrentWorktreeName
    \/ \E prefix \in Prefixes : DoGetWorktreeNames(prefix)
    \/ \E args \in SeqsUpTo(Tokens, MaxArgs) : DoResolveWorkspaceFolder(args)

Spec == Init /\ [][Next]_vars

InitCodec ==
    /\ docker = NoContainers
    /\ mainDir \in CodecRoots
    /\ listing = <<mainDir>>
    /\ cwdKind \in {"outside", "worktree"}
    /\ cwd = mainDir
    /\ CallInit
    /\ ProxyInit
    /\ CmdInit

NextCodec ==
    \/ \E name \in SeqsUpTo(NameChars, MaxNameLen) : DoValidateWorktreeName(name)
    \/ \E b \in Basenames, name \in SeqsUpTo(NameChars, MaxNameLen) : DoCodec(b, name)
    \/ \E name \in SeqsUpTo(NameChars, MaxNameLen) : DoResolveWorktreePath(name)

SpecCodec == InitCodec /\ [][NextCodec]_vars

InitProxy ==
    /\ docker = NoContainers
    /\ mainDir = RootP
    /\ listing = <<RootP>>
    /\ cwdKind = "worktree"
    /\ cwd = RootP
    /\ CallInit
    /\ ProxyInit
    /\ CmdInit

NextProxy ==
    \/ \E dir \in ProxyDirs, ans \in PsAnswers : getProxyPortPs(dir, ans)
    \/ \E ans \in PortAnswers : getProxyPortPort(ans)

SpecProxy == InitProxy /\ [][NextProxy]_vars

InitRuntime ==
    /\ docker = NoContainers
    /\ mainDir = RootP
    /\ listing = <<RootP>>
    /\ cwdKind = "worktree"
    /\ cwd = RootP
    /\ CallInit
    /\ ProxyInit
    /\ CmdInit

\* getProxyPort against a container runtime whose state changes at any moment
NextRuntime ==
    \/ \E dir \in ProxyDirs : getProxyPortPs(dir, dockerPs(dir))
    \/ getProxyPortPort(dockerPort(containerID))
    \/ \E id \in ContainerIDs, p \in HostPorts : ContainerStart(id, p)
    \/ \E i \in 1..MaxContainers : ContainerStop(i)
    \/ \E i \in 1..MaxContainers : ContainerRemove(i)
    \/ DaemonStop

SpecRuntime == InitRuntime /\ [][NextRuntime]_vars

\* openDevcontainer(dir), as runCode calls it
InitAttach ==
    /\ docker \in {NoContainers, OneContainer(Empty), OneContainer(<<"1">>)}
    /\ mainDir = RootP
    /\ listing = <<RootP, RootP \o <<"@", "a">> >>
    /\ cwdKind = "worktree"
    /\ cwd = RootP
    /\ CallInit
    /\ ProxyInit
    /\ cmd = "code"
    /\ cmdArgs = << <<"a">> >>
    /\ step = "openDevcontainer"
    /\ cmdDir = RootP \o <<"@", "a">>
    /\ cmdExtra = <<>>
    /\ argv = <<>>
    /\ calls = <<>>
    /\ upOut = Empty
    /\ jsonLine = Empty
    /\ result = NoResult
    /\ folderURI = Empty
    /\ launched = <<>>
    /\ cmdErr = NoErr

NextAttach ==
    \/ \E a \in AttachInputs : openDevcontainer(a.up, a.dec, a.ext)
    \/ callGetProxyPort
    \/ \E found \in BOOLEAN : openDevcontainerExec(found)

SpecAttach == InitAttach /\ [][NextAttach]_vars

NextURL == \E arg \in URLArgs : DoNormalizeLocalhostURL(arg)

SpecURL == InitProxy /\ [][NextURL]_vars


\* the commands, one per run of the program
CmdNames ==
    { Empty, <<".">>, <<".", ".">>, <<"a">>, <<"x">>, <<"a", "/", "b">>,
      <<"a", "\\", "b">> }

NameArgs == {<<>>} \cup {<<n>> : n \in CmdNames}

\* what the commands find around them: see runAdd, runRemove,
\* resolveWorktreeDir, DoRunCD and DoRunCode
AddEnvs == [stray : BOOLEAN, origin : BOOLEAN, addOk : BOOLEAN]

RemoveEnvs == [stray : BOOLEAN, rmOk : BOOLEAN]

CDEnvs ==
    [stray : BOOLEAN, origin : BOOLEAN, addOk : BOOLEAN, create : BOOLEAN,
     confirm : BOOLEAN, found : BOOLEAN]

CodeEnvs ==
    [stray : BOOLEAN, origin : BOOLEAN, addOk : BOOLEAN, create : BOOLEAN,
     confirm : BOOLEAN, dc : BOOLEAN, cli : BOOLEAN, found : BOOLEAN]

LocalURL == <<"/", "/">> \o Localhost \o <<":", "9">>

ClientArgs ==
    { <<>>, << <<".">> >>, << <<"a">> >>, << <<"x">> >>, <<LocalURL>>,
      << <<".">>, LocalURL >>, << <<"a">>, LocalURL >>, << <<"x">>, LocalURL >> }

CmdAttachInputs ==
    {a \in AttachInputs :
         /\ a.up.out \in {Empty, <<"x">>, <<"{">>}
         /\ a.dec.ContainerID \in {Empty, <<"a">>}
         /\ a.dec.RemoteWorkspaceFolder \in {Empty, <<"/">>}
         /\ ~a.ext}

DaemonDown == [up |-> FALSE, containers |-> <<>>]

InitCmd ==
    /\ docker \in {NoContainers, DaemonDown, OneContainer(Empty),
                   OneContainer(<<"1">>)}
    /\ mainDir = RootP
    /\ listing \in {<<RootP>>, <<RootP, RootP \o <<"@", "a">> >>}
    /\ cwdKind \in {"outside", "worktree"}
    /\ cwd \in IF cwdKind = "outside" THEN {<<"/">>}
              ELSE {listing[i] : i \in 1..Len(listing)}
    /\ CallInit
    /\ ProxyInit
    /\ CmdInit

\* the program runs one command; Idle: it has not begun
Idle == cmd = "none" /\ op = "none"

NextCmd ==
    \/ Idle /\ \E name \in CmdNames : DoResolveWorktreePath(name)
    \/ Idle /\ \E args \in NameArgs, e \in AddEnvs : DoRunAdd(args, e)
    \/ Idle /\ \E args \in NameArgs, e \in RemoveEnvs : DoRunRemove(args, e)
    \/ Idle /\ \E args \in NameArgs, e \in CDEnvs : DoRunCD(args, e)
    \/ Idle /\ \E args \in NameArgs, e \in CodeEnvs : DoRunCode(args, e)
    \/ \E a \in CmdAttachInputs : openDevcontainer(a.up, a.dec, a.ext)
    \/ callGetProxyPort
    \/ \E found \in BOOLEAN : openDevcontainerExec(found)
    \/ Idle /\ \E args \in ClientArgs, found, mk \in BOOLEAN :
                    runChrome(args, found, mk)
    \/ \E started \in BOOLEAN : runChromeStart(started)
    \/ Idle /\ \E args \in ClientArgs, found \in BOOLEAN : runPlaywright(args, found)
    \/ \E started \in BOOLEAN : runPlaywrightStart(started)
    \/ Idle /\ \E args \in ClientArgs, found \in BOOLEAN : runCurl(args, found)
    \/ \E started, exit0 \in BOOLEAN : runCurlRun(started, exit0)
    \/ Idle /\ \E args \in ClientArgs, found \in BOOLEAN : DoRunUp(args, found)
    \/ Idle /\ \E args \in ClientArgs, found \in BOOLEAN : DoRunBuild(args, found)

SpecCmd == InitCmd /\ [][NextCmd]_vars


\* command lines of wt exec: a payload, alone, after "--", after a first
\* token, or after a first token and "--"
ExecPayloads ==
    { <<>>, << <<"a">> >>, << <<"a">>, <<"x">> >>, << <<"x">> >>, << <<".">> >>,
      << <<".">>, <<"x">> >> }

ExecLines ==
    ExecPayloads
        \cup {<<Dash>> \o p : p \in ExecPayloads}
        \cup {<<t, Dash>> \o p : t \in {<<".">>, <<"a">>}, p \in ExecPayloads}
        \cup { << <<"-", "v">>, <<"a">>, <<"x">> >>, << <<"-", "x">>, <<"a">> >> }

NextExec ==
    \E line \in ExecLines, dc, found \in BOOLEAN : DoRunExec(line, dc, found)

SpecExec == Init /\ [][NextExec]_vars

-----------------------------------------------------------------------------
(* Properties *)

\* a path that does not belong to the project: another parent directory, or a
\* basename without the reserved prefix
ForeignPath(p) ==
    \/ Dir(p) # Dir(mainDir)
    \/ ~HasPrefix(Base(p), Base(mainDir) \o <<"@">>)

\* the process is in a checkout other than the primary one whose basename is
\* the primary one's, the delimiter, and a non-empty name
InNamedWorktree ==
    /\ cwdKind = "worktree"
    /\ cwd # mainDir
    /\ HasPrefix(Base(cwd), Base(mainDir) \o <<"@">>)
    /\ Len(Base(cwd)) > Len(Base(mainDir)) + 1

CurrentName == SubSeq(Base(cwd), Len(Base(mainDir)) + 2, Len(Base(cwd)))

CurrentErr ==
    IF cwdKind # "worktree" THEN ErrNotWorktree
    ELSE IF cwd = mainDir THEN ErrMainWorktree
    ELSE ErrNotRecognized

\* what the disambiguator answers when it resolves to the current worktree
\* with the given payload
ViaCurrent(payload) ==
    IF InNamedWorktree
    THEN res.opt = [name |-> CurrentName, extra |-> payload, err |-> NoErr]
    ELSE res.opt = [name |-> Empty, extra |-> <<>>, err |-> CurrentErr]

\* C1: encoding a valid name and decoding the result gives the name back, for
\* every project basename; and in one repository two distinct valid names never
\* resolve to the same worktree path.
C1_RoundTrip ==
    /\ (op = "codec" /\ res.err = NoErr) => res.parsed = in.name
    /\ (/\ op = "resolveWorktreePath" /\ lastPath # <<>>
        /\ res.err = NoErr /\ lastPath[1].err = NoErr
        /\ lastPath[1].name # in)
       => lastPath[1].path # res.path

C1_Witness ==
    /\ op = "codec"
    /\ res.err = NoErr
    /\ in.repoBasename = <<"r", "@">>
    /\ in.name = <<"@", "a">>
    /\ res.parsed = <<"@", "a">>

\* C2: no name is decoded from a path whose parent is not the project root's
\* parent or whose basename lacks the prefix, neither by the current-worktree
\* lookup nor by the enumeration.
C2_ForeignPathYieldsNoName ==
    /\ (op = "resolveCurrentWorktreeName" /\ cwdKind = "worktree" /\ ForeignPath(cwd))
       => (res.name = Empty /\ res.err # NoErr)
    /\ op = "getWorktreeNames"
       => /\ Len(res) <= Cardinality({i \in 1..Len(listing) : ~ForeignPath(listing[i])})
          /\ \A k \in 1..Len(res) :
                \E i \in 1..Len(listing) :
                    /\ ~ForeignPath(listing[i])
                    /\ Base(listing[i]) = Base(mainDir) \o <<"@">> \o res[k]

\* C3: validateWorktreeName rejects the empty string, ".", "..", every string
\* with a '/' or a '\', every string that is not its own basename, and nothing
\* else.
C3_ValidateRejectsExactly ==
    op = "validateWorktreeName" =>
        /\ res \in InvalidNameErrs \cup {NoErr}
        /\ res # NoErr <=> \/ in = Empty
                           \/ in = <<".">>
                           \/ in = <<".", ".">>
                           \/ Contains(in, "/")
                           \/ Contains(in, "\\")
                           \/ Base(in) # in

C3_Witness ==
    /\ op = "validateWorktreeName"
    /\ in = <<".", "a">>
    /\ res = NoErr

\* C4 as claimed: every name that contains the delimiter is rejected.
C4_DelimiterRejected ==
    (op = "validateWorktreeName" /\ Contains(in, "@")) => res \in InvalidNameErrs

\* C4 as amended: a name that contains the delimiter is rejected only when it
\* also contains a path separator; every other such name passes validation.
C4_DelimiterAccepted ==
    (op = "validateWorktreeName" /\ Contains(in, "@")) =>
        (res # NoErr <=> (Contains(in, "/") \/ Contains(in, "\\")))

C4_Witness ==
    /\ op = "validateWorktreeName"
    /\ in = <<"a", "@">>
    /\ res = NoErr

\* C5: with no argument the disambiguator answers the current worktree name
\* and an empty payload, with a leading "." the current worktree name and the
\* remaining arguments; outside a named worktree both fail with the
\* current-worktree error, without name or payload.
C5_EmptyAndDot ==
    /\ (op = "resolveWorkspaceFolder" /\ in = <<>>) => ViaCurrent(<<>>)
    /\ (op = "resolveWorkspaceFolder" /\ in # <<>> /\ in[1] = <<".">>)
       => ViaCurrent(Tail(in))

C5_Witness ==
    /\ op = "resolveWorkspaceFolder"
    /\ in = << <<".">>, <<"x">> >>
    /\ res.opt = [name |-> <<"a">>, extra |-> << <<"x">> >>, err |-> NoErr]

\* C6: a first token other than "." that equals an enumerated worktree name is
\* the answer, the remaining tokens the payload, wherever the process runs; a
\* token that is only a prefix of an enumerated name is not consumed.
C6_ExactMatch ==
    LET Rule3(names) ==
            /\ InSeq(in[1], names)
               => res.opt = [name |-> in[1], extra |-> Tail(in), err |-> NoErr]
            /\ (/\ ~InSeq(in[1], names)
                /\ \E i \in 1..Len(names) : HasPrefix(names[i], in[1]))
               => (res.opt.err # NoErr \/ res.opt.extra = in)
    IN (op = "resolveWorkspaceFolder" /\ in # <<>> /\ in[1] # <<".">>)
       => Rule3(getWorktreeNames(Empty))

C6_Witness ==
    /\ op = "resolveWorkspaceFolder"
    /\ cwd = mainDir
    /\ in = << <<"a">>, <<"x">> >>
    /\ getWorktreeNames(Empty) = << <<"a", "b">>, <<"a">> >>
    /\ res.opt = [name |-> <<"a">>, extra |-> << <<"x">> >>, err |-> NoErr]

\* C7: a first token that is neither "." nor an enumerated worktree name
\* leaves the whole argument list as the payload of the current worktree, and
\* fails outside a named worktree.
C7_WholeListIsPayload ==
    (/\ op = "resolveWorkspaceFolder" /\ in # <<>> /\ in[1] # <<".">>
     /\ ~InSeq(in[1], getWorktreeNames(Empty)))
    => ViaCurrent(in)

C7_Witness ==
    /\ op = "resolveWorkspaceFolder"
    /\ in = << <<"x">>, <<"a">> >>
    /\ InSeq(<<"a">>, getWorktreeNames(Empty))
    /\ res.opt = [name |-> <<"a">>, extra |-> in, err |-> NoErr]

AtMainRoot == cwdKind = "worktree" /\ cwd = mainDir

\* C8: resolveWorkspaceFolder answers the project root exactly when the
\* disambiguator failed and the process is in the primary checkout; when the
\* disambiguator failed anywhere else it returns that error and no directory.
C8_FallBack ==
    op = "resolveWorkspaceFolder" =>
        /\ (res.ret.err = NoErr /\ res.ret.dir = mainDir)
           <=> (res.opt.err # NoErr /\ AtMainRoot)
        /\ (res.opt.err # NoErr /\ ~AtMainRoot)
           => res.ret = [dir |-> Empty, extra |-> <<>>, err |-> res.opt.err]

C8_Witness ==
    /\ op = "resolveWorkspaceFolder"
    /\ in = << <<"x">> >>
    /\ Len(listing) > 1
    /\ res.opt.err = ErrMainWorktree
    /\ res.ret = [dir |-> mainDir, extra |-> in, err |-> NoErr]

\* the text before the first line feed
FirstLineOf(o) ==
    CHOOSE l \in {SubSeq(o, 1, k) : k \in 0..Len(o)} :
        /\ ~Contains(l, "\n")
        /\ Len(l) = Len(o) \/ o[Len(l) + 1] = "\n"

\* t is l without its leading and trailing white space
IsTrimOf(t, l) ==
    \E i \in 1..(Len(l) + 1), j \in 0..Len(l) :
        /\ t = SubSeq(l, i, j)
        /\ \A k \in 1..(i - 1) : l[k] \in WhiteSpace
        /\ \A k \in (j + 1)..Len(l) : l[k] \in WhiteSpace
        /\ t = Empty \/ (t[1] \notin WhiteSpace /\ t[Len(t)] \notin WhiteSpace)

\* C9: the container identifier is the trimmed first line of the find-by-label
\* output, whatever follows it; when that is empty the result is the
\* no-running-session error and the published-port query is not issued.
C9_SessionParse ==
    /\ pc = "port"
       => /\ IsTrimOf(containerID, FirstLineOf(out))
          /\ containerID # Empty
    /\ (pc = "done" /\ err = ErrNoRunning)
       => /\ IsTrimOf(Empty, FirstLineOf(out))
          /\ port = Empty
          /\ \A i \in 1..Len(issued) : issued[i].cmd # "port"
    /\ (pc = "done" /\ Len(issued) = 1) => err \in {ErrDockerQuery, ErrNoRunning}
    /\ \A i \in 1..Len(issued) :
           issued[i].cmd = "port" => (issued[i].arg = containerID /\ containerID # Empty)

C9_Witness ==
    /\ pc = "port"
    /\ out = <<" ", "a", "\n", "a">>
    /\ containerID = <<"a">>

NoneOf(s, chars) == \A i \in 1..Len(s) : s[i] \notin chars

\* a is host:port at colon i: a plain host, or a host in brackets
HostPortAt(a, i) ==
    /\ a[i] = ":"
    /\ NoneOf(SubSeq(a, i + 1, Len(a)), {":", "[", "]"})
    /\ \/ NoneOf(SubSeq(a, 1, i - 1), {":", "[", "]"})
       \/ /\ i >= 3
          /\ a[1] = "["
          /\ a[i - 1] = "]"
          /\ NoneOf(SubSeq(a, 2, i - 2), {"[", "]"})

\* C10: after a successful published-port query the port is the port
\* component of the trimmed first line, split as host:port; a first line that
\* is not host:port gives the parse error with that line, and no port.
C10_PortParse ==
    (pc = "done" /\ Len(issued) = 2 /\ err # ErrNoProxy) =>
        \E addr \in {SubSeq(out, i, j) : i \in 1..(Len(out) + 1), j \in 0..Len(out)} :
            /\ IsTrimOf(addr, FirstLineOf(out))
            /\ IF \E i \in 1..Len(addr) : HostPortAt(addr, i)
               THEN /\ err = NoErr
                    /\ \E i \in 1..Len(addr) :
                           HostPortAt(addr, i) /\ port = SubSeq(addr, i + 1, Len(addr))
               ELSE /\ err = ErrParsePort
                    /\ errArg = addr
                    /\ port = Empty

C10_Witness ==
    /\ pc = "done"
    /\ err = NoErr
    /\ out = <<"1", ":", "1", "\n", "1", ":", "1", "1", "\n">>
    /\ port = <<"1">>

\* the container runtime lists a running container for the label
SomeRunning == \E i \in 1..Len(docker.containers) : docker.containers[i].running

\* C11: when a running container was found and the runtime reports no
\* published host port for 1080, getProxyPort fails with the no-proxy-mapping
\* error (not the no-running-session error, not the parse error); when the
\* runtime lists no running container it fails with the no-running-session
\* error.
C11_NoProxyVersusNoSession ==
    /\ (pc = "done" /\ Len(issued) = 2 /\ ~Published(containerID))
       => /\ err = ErrNoProxy
          /\ errArg = Base(in)
          /\ port = Empty
    /\ (pc = "done" /\ docker.up /\ ~SomeRunning /\ Len(issued) = 1)
       => /\ err = ErrNoRunning
          /\ errArg = Base(in)
          /\ port = Empty
    /\ (pc = "done" /\ err = ErrNoRunning) => Len(issued) = 1
    /\ (pc = "done" /\ err = ErrNoProxy) => Len(issued) = 2

\* a running container without a published port, found and asked for its port
C11_Witness ==
    /\ pc = "done"
    /\ Len(issued) = 2
    /\ docker.containers = <<[id |-> <<"a">>, running |-> TRUE, port |-> Empty]>>
    /\ containerID = <<"a">>
    /\ err = ErrNoProxy

\* o[i..j] is a line of o: it lies between line feeds or the ends of o
LineAt(o, i, j) ==
    /\ i = 1 \/ o[i - 1] = "\n"
    /\ j = Len(o) \/ o[j + 1] = "\n"
    /\ \A k \in i..j : o[k] # "\n"

\* the line o[i..j], without the white space around it, begins with '{'
LooksLikeJSON(o, i, j) ==
    \E k \in i..j : o[k] = "{" /\ \A m \in i..(k - 1) : o[m] \in WhiteSpace

\* C12: after a successful bring-up the line handed to the decoder is the
\* last line of the transcript whose trimmed form begins with '{' (a later
\* such line supersedes an earlier one); when no line begins with '{' the
\* result is the no-JSON-output error and the editor is not launched.
C12_LastJSONLine ==
    (step \in {"getProxyPort", "done"} /\ cmdErr # ErrUpFailed) =>
        IF \E i \in 1..(Len(upOut) + 1), j \in 0..Len(upOut) :
               LineAt(upOut, i, j) /\ LooksLikeJSON(upOut, i, j)
        THEN /\ cmdErr # ErrNoJSON
             /\ \E i \in 1..(Len(upOut) + 1), j \in 0..Len(upOut) :
                    /\ LineAt(upOut, i, j)
                    /\ LooksLikeJSON(upOut, i, j)
                    /\ IsTrimOf(jsonLine, SubSeq(upOut, i, j))
                    /\ \A i2 \in (j + 1)..(Len(upOut) + 1), j2 \in j..Len(upOut) :
                           LineAt(upOut, i2, j2) => ~LooksLikeJSON(upOut, i2, j2)
        ELSE /\ cmdErr = ErrNoJSON
             /\ jsonLine = Empty
             /\ launched = <<>>
             /\ step = "done"

\* two JSON-looking lines: the later one is decoded, and the editor starts
C12_Witness ==
    /\ step = "done"
    /\ upOut = <<"{", "\n", "{", "x">>
    /\ jsonLine = <<"{", "x">>
    /\ launched # <<>>

\* the two hexadecimal digits of a container identifier character
HexPair(c) == IF c = "a" THEN <<"6", "1">> ELSE <<"6", "2">>

\* h is the hexadecimal form of id
IsHexOf(h, id) ==
    /\ Len(h) = 2 * Len(id)
    /\ \A k \in 1..Len(id) : <<h[2 * k - 1], h[2 * k]>> = HexPair(id[k])

\* the locator is the scheme, hex(containerID), then the remote folder
LocatorFormat ==
    \E h \in SeqsUpTo({"6", "1", "2"}, 2 * MaxIDLen) :
        /\ IsHexOf(h, result.ContainerID)
        /\ folderURI = <<"vscode-remote://attached-container+">> \o h
                           \o result.RemoteWorkspaceFolder

\* f does not begin with a lowercase hexadecimal digit
NoHexStart(f) ==
    f = Empty \/ f[1] \notin {hextable[i] : i \in 1..16}

\* C13 as stated: the locator has the fixed form and, over all decoded
\* identifiers and folders, no other container identifier yields it.
C13_LocatorDeterminesID ==
    folderURI # Empty =>
        /\ LocatorFormat
        /\ \A id \in AttachIDs, f \in AttachFolders :
               folderURIOf(id, f) = folderURI => id = result.ContainerID

\* C13, amended: the locator has the fixed form and, over all decoded
\* identifiers and all decoded folders that do not begin with a hexadecimal
\* digit (absolute paths, or no folder), no other identifier yields it.
C13_LocatorDeterminesIDForPaths ==
    folderURI # Empty =>
        /\ LocatorFormat
        /\ NoHexStart(result.RemoteWorkspaceFolder) =>
               \A id \in AttachIDs, f \in AttachFolders :
                   (NoHexStart(f) /\ folderURIOf(id, f) = folderURI)
                       => id = result.ContainerID

C13_Witness ==
    /\ result = [ContainerID |-> <<"a", "b">>, RemoteWorkspaceFolder |-> <<"/", "6">>]
    /\ folderURI = <<"vscode-remote://attached-container+", "6", "1", "6", "2", "/", "6">>
    /\ launched # <<>>

\* v is u with the host replaced by the loopback address: same scheme, user,
\* port, path, query and fragment
SameButHost(u, v) ==
    /\ v.ok
    /\ Hostname(v) = Loopback
    /\ Port(v) = Port(u)
    /\ v.Host = IF Port(u) = Empty THEN Loopback ELSE Loopback \o <<":">> \o Port(u)
    /\ v.Scheme = u.Scheme
    /\ v.Opaque = u.Opaque
    /\ v.User = u.User
    /\ v.Path = u.Path
    /\ v.ForceQuery = u.ForceQuery
    /\ v.RawQuery = u.RawQuery
    /\ v.Fragment = u.Fragment

\* C14: an argument that parses as a URL whose hostname is exactly localhost
\* is rewritten to a URL whose host is 127.0.0.1, with the same port and the
\* same scheme, user, path, query and fragment; every other argument is
\* returned as it was given.
C14_LocalhostRewritten ==
    op = "normalizeLocalhostURL" =>
        LET Holds(u) ==
                IF u.ok /\ Hostname(u) = Localhost
                THEN SameButHost(u, urlParse(res))
                ELSE res = in
        IN Holds(urlParse(in))

C14_Witness ==
    /\ op = "normalizeLocalhostURL"
    /\ in = <<"h", "t", "t", "p", ":", "/", "/">> \o Localhost \o <<":", "9", "/">>
    /\ res = <<"h", "t", "t", "p", ":", "/", "/">> \o Loopback \o <<":", "9", "/">>

\* the name a listed path stands for: the part of its basename after the
\* project basename and the delimiter
DecodedName(p) == SubSeq(Base(p), Len(Base(mainDir)) + 2, Len(Base(p)))

\* a listed path that getWorktreeNames(prefix) must report
Reported(p, prefix) ==
    /\ p # mainDir
    /\ Dir(p) = Dir(mainDir)
    /\ HasPrefix(Base(p), Base(mainDir) \o <<"@">>)
    /\ DecodedName(p) # Empty
    /\ HasPrefix(DecodedName(p), prefix)

\* C15: getWorktreeNames(prefix) returns exactly the decoded names of the
\* listed paths that are not the project root, lie in the project root's
\* parent directory and decode to a non-empty name starting with prefix, in
\* the order of the listing.
C15_NamesInListingOrder ==
    op = "getWorktreeNames" =>
        LET Exactly(idx) ==
                /\ Len(res) = Cardinality(idx)
                /\ \E f \in [1..Len(res) -> idx] :
                       /\ \A j, k \in 1..Len(res) : j < k => f[j] < f[k]
                       /\ \A k \in 1..Len(res) : res[k] = DecodedName(listing[f[k]])
        IN IF cwdKind = "outside" THEN res = <<>>
           ELSE Exactly({i \in 1..Len(listing) : Reported(listing[i], in)})

\* two reported names out of alphabetical order, and the root left out
C15_Witness ==
    /\ op = "getWorktreeNames"
    /\ in = <<"a">>
    /\ listing = <<RootP, RootP \o <<"@", "a", "b">>, RootP \o <<"@", "a">> >>
    /\ res = << <<"a", "b">>, <<"a">> >>

\* the errors of the not-in-a-named-worktree kind
NotInNamedWorktreeErrs == {ErrMainWorktree, ErrNotRecognized}

\* C16: in a checkout, resolveCurrentWorktreeName fails with a
\* not-in-a-named-worktree error when the current root is the project root
\* and when the current root's basename does not decode to a non-empty name
\* against the project basename; in every other case it returns the decoded
\* name and no error.
C16_CurrentName ==
    (op = "resolveCurrentWorktreeName" /\ cwdKind = "worktree") =>
        IF cwd = mainDir
        THEN res = [name |-> Empty, err |-> ErrMainWorktree]
        ELSE IF \/ ~HasPrefix(Base(cwd), Base(mainDir) \o <<"@">>)
                \/ Len(Base(cwd)) = Len(Base(mainDir)) + 1
        THEN res = [name |-> Empty, err |-> ErrNotRecognized]
        ELSE /\ res = [name |-> DecodedName(cwd), err |-> NoErr]
             /\ res.name # Empty
             /\ res.err \notin NotInNamedWorktreeErrs

\* a checkout whose basename is the project basename and the bare delimiter
C16_Witness ==
    /\ op = "resolveCurrentWorktreeName"
    /\ cwdKind = "worktree"
    /\ cwd = RootP \o <<"@">>
    /\ res = [name |-> Empty, err |-> ErrNotRecognized]


-----------------------------------------------------------------------------
(* No partial success *)

ClientCmds == {"chrome", "playwright", "curl"}

FolderCmds == ClientCmds \cup {"up", "build"}

DirCmds == {"cd", "code"}

\* the errors of the resolution steps: of the worktree, of the session and of
\* the proxy port, of the scan and of the decoding of the transcript
WorktreeErrs ==
    InvalidNameErrs
        \cup {ErrNotRepo, ErrNotWorktree, ErrMainWorktree, ErrNotRecognized}

ResolutionErrs ==
    WorktreeErrs
        \cup {ErrDockerQuery, ErrNoRunning, ErrNoProxy, ErrParsePort, ErrNoJSON,
              ErrParseUp}

\* the command's worktree cannot be resolved from its arguments
WorktreeResolutionFailed ==
    \/ cmd \in FolderCmds /\ resolveWorkspaceFolder(cmdArgs).err # NoErr
    \/ cmd \in DirCmds /\ Len(cmdArgs) = 0 /\ getMainRepoRoot.err # NoErr
    \/ /\ cmd \in DirCmds
       /\ Len(cmdArgs) = 1
       /\ \/ resolveNameArg(cmdArgs[1]).err # NoErr
          \/ resolveWorktreePath(resolveNameArg(cmdArgs[1]).name).err # NoErr

\* getProxyPort was called by the command and returned an error
ProxyPortFailed == step = "done" /\ pc = "done" /\ err # NoErr

\* the transcript of the bring-up holds no line that looks like JSON
ScanFailed ==
    /\ cmd = "code"
    /\ upOut # Empty
    /\ lastJSONLine(Split(upOut, "\n"), Empty) = Empty

Aborted == cmdErr # NoErr /\ launched = <<>>

IsProxySetting(a) == Len(a) > 0 /\ a[1] = proxyServerArg(Empty)[1]

\* what holds of every command but for the proxy port of the editor
NoPartialSuccess ==
    step = "done" =>
        /\ WorktreeResolutionFailed => cmdErr \in WorktreeErrs /\ Aborted
        /\ ScanFailed => cmdErr = ErrNoJSON /\ Aborted
        /\ cmdErr \in ResolutionErrs => Aborted
        /\ cmd \in ClientCmds /\ ProxyPortFailed => cmdErr = err /\ Aborted

\* C17 as stated: in every command, a failed resolution step (of the worktree,
\* of the session, of the proxy port, of the scan or of the decoding of the
\* transcript) makes the command end with an error and launch no process; the
\* proxy port looked up by openDevcontainer is one of these steps
C17_NoPartialSuccess ==
    /\ NoPartialSuccess
    /\ cmd = "code" /\ ProxyPortFailed => Aborted

\* C17 amended: as above for every step but the proxy port looked up by
\* openDevcontainer, whose error is dropped: the editor is then launched with
\* the arguments it has without the proxy setting, and the command ends with
\* no error unless the editor cannot be found
C17_NoPartialSuccessButEditorProxy ==
    /\ NoPartialSuccess
    /\ cmd = "code" /\ ProxyPortFailed =>
           /\ cmdErr \in {NoErr, ErrFindExec}
           /\ cmdErr = NoErr =>
                  /\ launched = <<[bin |-> <<"code">>, args |-> argv]>>
                  /\ argv = codeArgsOf(cmdDir, folderURI, FALSE)
                  /\ \A k \in 1..Len(argv) : ~IsProxySetting(argv[k])
           /\ cmdErr = ErrFindExec => launched = <<>>

\* chrome, asked for the worktree a, found a container that publishes no proxy
\* port, and ended with that error without starting the browser
C17_Witness ==
    /\ cmd = "chrome"
    /\ ProxyPortFailed
    /\ err = ErrNoProxy
    /\ cmdDir = RootP \o <<"@", "a">>
    /\ Aborted

-----------------------------------------------------------------------------
(* Race with the container runtime *)

\* the runtime still has a running container with this identifier
StillRunning(id) ==
    \E i \in 1..Len(docker.containers) :
        docker.containers[i].id = id /\ docker.containers[i].running

\* C18: whatever happens to the containers between the query for the session
\* and the query for the published port, getProxyPort ends with the port the
\* container publishes at the time of the second query, or with the error of a
\* missing proxy mapping; it returns no port for a container that has no
\* mapping then, and no other error. Before the second query it can only end
\* with the error of a missing session or of a runtime that does not answer.
C18_RaceGivesNormalErrors ==
    pc = "done" =>
        /\ Len(issued) = 2 => err \in {NoErr, ErrNoProxy}
        /\ Len(issued) = 2 /\ err = NoErr =>
               /\ docker.up
               /\ Published(containerID)
               /\ port = PublishedPort(containerID)
        /\ Len(issued) = 2 /\ ~(docker.up /\ Published(containerID)) =>
               err = ErrNoProxy /\ port = Empty
        /\ Len(issued) = 1 => err \in {ErrDockerQuery, ErrNoRunning}
        /\ err = ErrDockerQuery => ~docker.up
        /\ err # NoErr => port = Empty

\* the container found by the first query was stopped or removed before the
\* second one, which therefore found no mapping
C18_Witness ==
    /\ pc = "done"
    /\ Len(issued) = 2
    /\ containerID = <<"a">>
    /\ docker.up
    /\ ~StillRunning(containerID)
    /\ err = ErrNoProxy


-----------------------------------------------------------------------------
(* Validation before any external interaction *)

NameCmds == {"add", "rm", "cd", "code"}

\* C19: resolveWorktreePath given an invalid name, and add, rm, cd and code
\* given an invalid name other than ".", end with the error of the validation
\* of that name, having put no query to git and made no access to the file
\* system (and having launched nothing).
C19_ValidationFirst ==
    /\ (op = "resolveWorktreePath" /\ validateWorktreeName(in) # NoErr) =>
           /\ res.err = validateWorktreeName(in)
           /\ res.err \in InvalidNameErrs
           /\ calls = <<>>
    /\ (/\ cmd \in NameCmds
        /\ Len(cmdArgs) >= 1
        /\ cmdArgs[1] # <<".">>
        /\ validateWorktreeName(cmdArgs[1]) # NoErr) =>
           /\ step = "done"
           /\ cmdErr = validateWorktreeName(cmdArgs[1])
           /\ cmdErr \in InvalidNameErrs
           /\ calls = <<>>
           /\ launched = <<>>

\* wt code a/b, run inside a repository
C19_Witness ==
    /\ cmd = "code"
    /\ step = "done"
    /\ cmdArgs = << <<"a", "/", "b">> >>
    /\ cwdKind = "worktree"
    /\ cmdErr = ErrSeparators
    /\ calls = <<>>

-----------------------------------------------------------------------------
(* Proxied clients *)

HasArg(a, x) == \E k \in 1..Len(a) : a[k] = x

HasArgPair(a, x, y) == \E k \in 1..(Len(a) - 1) : a[k] = x /\ a[k + 1] = y

\* C20: chrome, playwright and curl start their client only after getProxyPort
\* has returned a port for the directory resolved from the arguments, and the
\* arguments of the client hold the proxy setting made of that port:
\* --proxy-server=socks5://127.0.0.1:<port> for chrome and playwright,
\* --proxy socks5h://127.0.0.1:<port> for curl. If getProxyPort fails, or is
\* not reached, no client is started.
C20_ClientsAreProxied ==
    cmd \in ClientCmds =>
        /\ launched # <<>> =>
               /\ Len(launched) = 1
               /\ step = "done"
               /\ pc = "done"
               /\ err = NoErr
               /\ Len(issued) = 2
               /\ in = cmdDir
               /\ cmdDir = resolveWorkspaceFolder(cmdArgs).dir
               /\ port = PublishedPort(containerID)
               /\ cmd \in {"chrome", "playwright"} =>
                      HasArg(launched[1].args,
                             <<"--proxy-server=socks5://127.0.0.1:">> \o port)
               /\ cmd = "curl" =>
                      HasArgPair(launched[1].args, <<"--proxy">>,
                                 <<"socks5h://127.0.0.1:">> \o port)
        /\ (step = "done" /\ pc = "done" /\ err # NoErr) =>
               launched = <<>> /\ cmdErr = err
        /\ (step = "done" /\ pc # "done") => launched = <<>> /\ cmdErr # NoErr

\* wt curl a //localhost:9 with a container that publishes the port 1
C20_Witness ==
    /\ cmd = "curl"
    /\ cmdArgs = << <<"a">>, LocalURL >>
    /\ cmdDir = RootP \o <<"@", "a">>
    /\ port = <<"1">>
    /\ launched =
           <<[bin |-> <<"curl">>,
              args |-> << <<"--proxy">>, <<"socks5h://127.0.0.1:", "1">>,
                          <<"--noproxy">>, Empty,
                          <<"/", "/">> \o Loopback \o <<":", "9">> >>]>>


-----------------------------------------------------------------------------
(* The explicit separator *)

\* the process is in a checkout wt itself would have made: a sibling of the
\* primary checkout, with a valid name
InOwnWorktree ==
    /\ InNamedWorktree
    /\ ~ForeignPath(cwd)
    /\ validateWorktreeName(CurrentName) = NoErr

\* C21: wt exec -- payload..., run inside a named worktree with a payload
\* whose first token is the name of an existing worktree, resolves to the
\* current worktree and keeps the whole payload, that token included.
C21_SeparatorDisambiguates ==
    (/\ cmd = "exec"
     /\ Len(cmdArgs) >= 2
     /\ cmdArgs[1] = Dash
     /\ InOwnWorktree
     /\ InSeq(cmdArgs[2], getWorktreeNames(Empty)))
    => /\ cmdDir = cwd
       /\ cmdExtra = Tail(cmdArgs)


-----------------------------------------------------------------------------
(* Path of the current worktree *)

\* C22: when resolveCurrentWorktreeName succeeds with a name n,
\* resolveWorktreePath(n) is the root of the current checkout, and
\* resolveWorkspaceFolder without argument answers that directory.
C22_CurrentPathRoundTrip ==
    /\ (op = "resolveCurrentWorktreeName" /\ res.err = NoErr) =>
           resolveWorktreePath(res.name)
               = [path |-> getCurrentWorktreeRoot.path, err |-> NoErr]
    /\ (op = "resolveWorkspaceFolder" /\ in = <<>> /\ res.opt.err = NoErr) =>
           /\ res.ret.err = NoErr
           /\ res.ret.dir = getCurrentWorktreeRoot.path


-----------------------------------------------------------------------------
(* Payload on fall back *)

\* resolveWorkspaceFolder(a) falls back to the project root: the disambiguator
\* fails and a directory is returned all the same
FallsBack(a) ==
    /\ resolveOptionalWorktreeArgs(a).err # NoErr
    /\ resolveWorkspaceFolder(a).err = NoErr

\* what runExec starts for the payload a in the directory d
Started(a, d) ==
    \/ launched = <<>> /\ cmdErr = ErrFindExec
    \/ /\ cmdErr = NoErr
       /\ Len(launched) = 1
       /\ \/ /\ launched[1].bin = <<"devcontainer">>
             /\ launched[1].args
                    = << <<"exec">>, <<"--workspace-folder">>, d >>
                          \o (IF a = <<>> THEN DefaultShell ELSE a)
          \/ /\ a = <<>>
             /\ launched[1] = [bin |-> ParentShell, args |-> <<>>]
          \/ /\ a # <<>>
             /\ launched[1] = [bin |-> Head(a), args |-> Tail(a)]

=============================================================================
